---- MODULE Spec2Model ----
(***************************************************************************)
(* ayaFlow: kernel classifier -> ring buffer -> ingest loop -> live-flow   *)
(* state and durable writer.  The classifier is modelled on the bytes of   *)
(* the frame, the userspace tasks as interleaved steps between their       *)
(* suspension points and atomic operations.                                *)
(***************************************************************************)
EXTENDS Integers, Sequences, FiniteSets, TLC

VARIABLES
    frame,              \* bytes data..data_end of the packet last given to the classifier
    verdict,            \* return value of the last classifier invocation (NoVerdict before)
    lastEmit,           \* history: the events that invocation submitted
    hadRoom,            \* history: whether the ring had room for a record at that invocation
    ring,               \* EVENTS ring buffer: committed records, oldest first
    seqno,              \* history: number of packets captured so far (identity of records)
    committed,          \* history: ids of the records committed to the ring, in order
    ipc,                \* position of poll_ring_buf
    pending,            \* the metadata poll_ring_buf is working on (<<>> when none)
    processed,          \* history: ids passed to TrafficState::update, in order
    sendFailed,         \* history: a tx.send returned Err
    connections,        \* TrafficState.connections: FlowKey -> ConnectionStats
    total_packets,      \* TrafficState.total_packets
    total_bytes,        \* TrafficState.total_bytes
    active_connections, \* TrafficState.active_connections
    cpc,                \* position of cleanup_stale_connections
    c_now,              \* its local `now`
    scanTodo,           \* keys the iteration has not visited yet
    to_remove,          \* its local `to_remove`
    removed_count,      \* its local `removed_count`
    evicted,            \* history: sums of packets_count / bytes_sent of the removed records
    removed,            \* history: the entries the running cleanup has removed so far
    now,                \* the clock (Instant::now and the wall clock)
    chan,               \* the writer channel (mpsc, bounded)
    rxAlive,            \* the Receiver still exists
    mode,               \* "raw" (aggregation_window_seconds = 0) or "agg"
    buffer,             \* run_writer_raw's batch buffer
    buckets,            \* run_writer_aggregated's bucket map
    rows,               \* the packets table
    received,           \* history: ids the writer took from the channel, in order
    wlast,              \* history: what the writer's last loop iteration did
    wsel,               \* the writer's select!: which branches its current iteration still waits on
    hist,               \* the last GET /api/history: its limit parameter and its response
    pruned,             \* the last delete_old_data call: its argument, clock and result
    dpc,                \* position of each task that uses the database handle
    txn,                \* the open transaction of the connection and the table it began with
    todo,               \* flush: the rows still to insert
    joined,             \* history: for each live-map key, the flows of the packets that updated its entry
    decoded,            \* the last PacketEvent lifted by from_ebpf, and the PacketMetadata made of it
    exported,           \* the Prometheus registry: packets_total, bytes_total, active_connections
    mpc,                \* position of each /metrics handler
    mloc,               \* locals of each /metrics handler
    overlapped,         \* history: whether the running sync of a handler shared its time with another
    msync,              \* history: the last sync that finished
    cache,              \* DnsCache::cache: IpAddr -> CacheEntry
    resolving,          \* the resolve call waiting for its lookup, if any
    resolved,           \* history: the last resolve call that returned
    argv,               \* the options given on the command line
    config,             \* main: the Config, once loaded
    merged,             \* whether merge_cli has run
    sniffer,            \* start_sniffer: its sample rate and filter, whether its loop runs, the metadata it is sending
    sample_counter,     \* start_sniffer: the u32 counter of the sampling gate
    accepted,           \* history: how many packets parsed and passed the filter
    forwarded,          \* history: the ordinals of the accepted packets put on the channel
    senders             \* a Sender of the writer channel still exists

vars == <<frame, verdict, lastEmit, hadRoom, ring, seqno, committed, ipc, pending,
          processed, sendFailed, connections, total_packets,
          total_bytes, active_connections, cpc, c_now,
          scanTodo, to_remove, removed_count, evicted, removed, now, chan, rxAlive,
          mode, buffer, buckets, rows, received, wlast, wsel, hist, pruned,
          dpc, txn, todo,
          joined,
          decoded,
          exported, mpc, mloc, overlapped, msync,
          cache, resolving, resolved,
          argv, config, merged,
          sniffer, sample_counter, accepted, forwarded,
          senders>>

classifierVars == <<frame, verdict, lastEmit, hadRoom>>
ringVars       == <<ring, seqno, committed>>
ingestVars     == <<ipc, pending, processed, sendFailed>>
trafficVars    == <<connections, total_packets, total_bytes, active_connections>>
cleanupVars    == <<cpc, c_now, scanTodo, to_remove, removed_count, evicted, removed>>
writerVars     == <<chan, rxAlive, mode, buffer, buckets, rows, received, wlast, wsel>>
apiVars        == <<hist, pruned>>
closeVars      == <<senders>>
snifferVars    == <<sniffer, sample_counter, accepted, forwarded>>
configVars     == <<argv, config, merged>>
dnsVars        == <<cache, resolving, resolved>>
metricsVars    == <<exported, mpc, mloc, overlapped, msync>>
decodeVars     == <<decoded>>
flowVars       == <<joined>>
dbVars         == <<dpc, txn, todo>>

\* What the classifier, the ingest loop, the housekeeping and the writer never touch.
auxVars        == <<apiVars, dbVars, flowVars, decodeVars, metricsVars, dnsVars, configVars, snifferVars, closeVars>>

----------------------------------------------------------------------------
(* Bounds of the model *)

RingSlots        == 2   \* records the ring holds before reserve fails
MaxPackets       == 4   \* packets captured in a pipeline run
ChannelCapacity  == 2   \* slots of the writer channel (10000 in main.rs:78)
BatchSize        == 2   \* buffer length that triggers a flush (1000 in storage.rs:70)
MaxTime          == 3   \* last clock value
MaxCalls         == 3   \* update calls made on a TrafficState
MaxSent          == 3   \* metadata sent to a writer running alone
MaxElapsed       == 1   \* last clock value while the writer runs alone
HistoryDefault   == 1   \* limit of a history request without one (100 in api.rs:215)
HistoryCap       == 2   \* greatest limit passed to query_history (1000 in api.rs:215)
MaxSeconds       == 1   \* whole seconds that pass while retention runs
MaxCounted       == 2   \* update calls made while /metrics is served
CounterBits      == 3   \* width of the sniffer's sample counter (32 in sniffer.rs:93)
DnsTtl           == 1   \* DnsCache::ttl, in clock units (300 s in main.rs:126)

(* Program constants *)

MsPerSecond      == 1000
default_port     == 3000
default_connection_timeout == 60
EthHdrLen        == 14
Ipv4HdrLen       == 20
TcpHdrLen        == 20
UdpHdrLen        == 8
EtherTypeIpv4    == 2048
IpProtoTcp       == 6
IpProtoUdp       == 17
TC_ACT_PIPE      == 3
TC_ACT_SHOT      == 2
PacketEventSize  == 20
NoVerdict        == -1

----------------------------------------------------------------------------
(* Frames: the bytes a TcContext exposes between data and data_end *)

Byte(n, i) == (n \div (256 ^ i)) % 256

Max(a, b) == IF a >= b THEN a ELSE b

\* An IPv4 options block of (ihl - 5) words: NOP NOP NOP EOL per word.
OptionBytes(ihl) == [i \in 1..(4 * (ihl - 5)) |-> IF i % 4 = 0 THEN 0 ELSE 1]

\* Ethernet header, IPv4 header with ihl words, then the first 20 bytes of
\* the transport header (ports first), all multi-byte fields big-endian.
FullFrame(ether, ihl, proto, totLen, src, dst, sport, dport) ==
    [i \in 1..12 |-> 0] \o <<Byte(ether, 1), Byte(ether, 0)>>
    \o <<64 + ihl, 0, Byte(totLen, 1), Byte(totLen, 0), 0, 0, 0, 0, 64, proto, 0, 0>>
    \o src \o dst
    \o OptionBytes(ihl)
    \o <<Byte(sport, 1), Byte(sport, 0), Byte(dport, 1), Byte(dport, 0)>>
    \o [i \in 1..16 |-> 0]

\* The header values a frame was built from, and the bytes captured.
FrameOf(h) ==
    LET full == FullFrame(h.ether, h.ihl, h.proto, h.totLen, h.src, h.dst, h.sport, h.dport)
    IN  SubSeq(full, 1, IF h.caplen < Len(full) THEN h.caplen ELSE Len(full))

\* A u32 is written as its four bytes, most significant first (TLC integers
\* are 32-bit signed, narrower than u32).
Addr(a, b, c, d) == <<a, b, c, d>>

Flow1 == [src |-> Addr(10, 0, 0, 1),   sport |-> 12345, dst |-> Addr(192, 168, 1, 100), dport |-> 443]
Flow2 == [src |-> Addr(172, 16, 0, 1), sport |-> 53000, dst |-> Addr(8, 8, 8, 8),       dport |-> 53]
Flows == {Flow1, Flow2}

AllHeaders ==
    { [ether |-> e, ihl |-> l, proto |-> p, totLen |-> t, src |-> f.src, dst |-> f.dst,
       sport |-> f.sport, dport |-> f.dport, caplen |-> n] :
        e \in {EtherTypeIpv4, 34525}, l \in {5, 6}, p \in {IpProtoTcp, IpProtoUdp, 1},
        t \in {0, 1500}, f \in Flows, n \in {13, 33, 41, 42, 53, 54, 58} }

\* The frames the classifier is run on: every truncation point of a plain
\* IPv4 frame for TCP, UDP and ICMP, an IPv6 frame, and complete frames with
\* IPv4 options or with tot_len = 0.
Headers ==
    { h \in AllHeaders :
        \/ /\ h.ether = EtherTypeIpv4 /\ h.ihl = 5 /\ h.totLen = 1500
           /\ (h.caplen < 54 => h.src = Flow1.src)
        \/ /\ h.ether # EtherTypeIpv4 /\ h.ihl = 5 /\ h.totLen = 1500
           /\ h.proto = IpProtoTcp /\ h.caplen = 58 /\ h.src = Flow1.src
        \/ /\ h.ether = EtherTypeIpv4 /\ h.ihl = 6 /\ h.totLen = 1500
           /\ h.proto # 1 /\ h.caplen = 58 /\ h.src = Flow1.src
        \/ /\ h.ether = EtherTypeIpv4 /\ h.ihl = 5 /\ h.totLen = 0
           /\ h.proto # 1 /\ h.caplen = 58 /\ h.src = Flow1.src }

----------------------------------------------------------------------------
(* The classifier, on a little-endian target (bpfel) *)

\* ptr::read_unaligned of a u16 / u32 at byte offset off.
ReadU16(data, off) == data[off + 1] + 256 * data[off + 2]
ReadU32(data, off) == <<data[off + 4], data[off + 3], data[off + 2], data[off + 1]>>

\* u16::from_be / u32::from_be: a byte swap on this target.
FromBe16(x) == (x % 256) * 256 + (x \div 256)
FromBe32(x) == <<x[4], x[3], x[2], x[1]>>

\* EtherType::Ipv4 is stored in network byte order.
EtherTypeIpv4Raw == FromBe16(EtherTypeIpv4)

\* Every early return: `return TC_ACT_PIPE`, nothing reserved or submitted.
NoEvent_shot == [verdict |-> TC_ACT_SHOT, emit |-> <<>>]

NoEvent == [verdict |-> TC_ACT_PIPE, emit |-> <<>>]

\* The `match proto` arms: the transport header length required, or -1 for
\* the `_ => return` arm.
TransportHdrLen_any(proto) ==
    IF proto = IpProtoTcp THEN TcpHdrLen ELSE UdpHdrLen

TransportHdrLen(proto) ==
    IF proto = IpProtoTcp THEN TcpHdrLen
    ELSE IF proto = IpProtoUdp THEN UdpHdrLen
    ELSE -1

\* One invocation on the bytes data (data_end - data = Len(data)); reserveOk
\* is what EVENTS.reserve would answer.  Result: the verdict and the events
\* submitted.
ayaflow(data, reserveOk) ==
    LET eth_end == EthHdrLen
        ip_end  == eth_end + Ipv4HdrLen
    IN
    IF eth_end > Len(data) THEN NoEvent
    ELSE IF ReadU16(data, 12) # EtherTypeIpv4Raw THEN NoEvent
    ELSE IF ip_end > Len(data) THEN NoEvent
    ELSE
      LET proto    == data[eth_end + 10]
          src_addr == FromBe32(ReadU32(data, eth_end + 12))
          dst_addr == FromBe32(ReadU32(data, eth_end + 16))
          pkt_len  == FromBe16(ReadU16(data, eth_end + 2))
          hdr_len  == TransportHdrLen(proto)
      IN
      IF hdr_len < 0 THEN NoEvent
      ELSE IF ip_end + hdr_len > Len(data) THEN NoEvent
      ELSE
        LET src_port == FromBe16(ReadU16(data, ip_end))
            dst_port == FromBe16(ReadU16(data, ip_end + 2))
        IN  [verdict |-> TC_ACT_PIPE,
             emit |-> IF reserveOk
                      THEN <<[src_addr |-> src_addr, dst_addr |-> dst_addr,
                              src_port |-> src_port, dst_port |-> dst_port,
                              protocol |-> proto, pkt_len |-> pkt_len]>>
                      ELSE <<>>]

\* EVENTS.reserve::<PacketEvent>(0) succeeds while the ring has room.
ReserveOk(r) == Len(r) < RingSlots

\* The ring record of an event: exactly sizeof(PacketEvent) bytes.
RingRecord(ev, id) == [size |-> PacketEventSize, ev |-> ev, id |-> id]

\* The kernel runs the classifier on the frame with header values h.
Invoke(h, id) ==
    LET data == FrameOf(h)
        ok   == ReserveOk(ring)
        res  == ayaflow(data, ok)
    IN  /\ frame' = [hdr |-> h, data |-> data]
        /\ verdict' = res.verdict
        /\ lastEmit' = res.emit
        /\ hadRoom' = ok
        /\ ring' = ring \o [i \in 1..Len(res.emit) |-> RingRecord(res.emit[i], id)]

----------------------------------------------------------------------------
(* State after construction *)

\* The tasks that share the Arc<Mutex<Connection>>: the writer (flush), an
\* API handler (query_history) and the retention task (delete_old_data).
DbTasks == {"writer", "reader", "retention"}

\* The /metrics requests in service at one time, and a handler's locals
\* before it has read anything.
Scrapers == {"a", "b"}
NoLocals == [total_pkts |-> 0, total_b |-> 0, active |-> 0, current |-> 0]

Init ==
    /\ frame = [hdr |-> <<>>, data |-> <<>>]
    /\ verdict = NoVerdict
    /\ lastEmit = <<>>
    /\ hadRoom = TRUE
    /\ ring = <<>>
    /\ seqno = 0
    /\ committed = <<>>
    /\ ipc = "poll"
    /\ pending = <<>>
    /\ processed = <<>>
    /\ sendFailed = FALSE
    /\ connections = <<>>
    /\ total_packets = 0
    /\ total_bytes = 0
    /\ active_connections = 0
    /\ cpc = "idle"
    /\ c_now = 0
    /\ scanTodo = {}
    /\ to_remove = {}
    /\ removed_count = 0
    /\ evicted = [packets_count |-> 0, bytes_sent |-> 0]
    /\ removed = {}
    /\ now = 0
    /\ chan = <<>>
    /\ rxAlive = TRUE
    /\ mode \in {"raw", "agg"}
    /\ buffer = <<>>
    /\ buckets = <<>>
    /\ rows = <<>>
    /\ received = <<>>
    /\ wlast = [op |-> "none", flushed |-> FALSE, kind |-> "none", failed |-> {}, batch |-> <<>>]
    /\ wsel = "armed"
    /\ hist = [limit |-> <<>>, ok |-> FALSE, response |-> <<>>]
    /\ pruned = [seconds |-> 0, at |-> 0, ok |-> FALSE, deleted |-> 0]
    /\ dpc = [t \in DbTasks |-> "idle"]
    /\ txn = [open |-> FALSE, base |-> <<>>]
    /\ todo = <<>>
    /\ joined = <<>>
    /\ decoded = <<>>
    /\ exported = [packets |-> 0, bytes |-> 0, active |-> 0]
    /\ mpc = [h \in Scrapers |-> "idle"]
    /\ mloc = [h \in Scrapers |-> NoLocals]
    /\ overlapped = [h \in Scrapers |-> FALSE]
    /\ msync = [alone |-> FALSE, total_pkts |-> 0, total_b |-> 0, done |-> FALSE]
    /\ cache = <<>>
    /\ resolving = <<>>
    /\ resolved = <<>>
    /\ argv = <<>>
    /\ config = <<>>
    /\ merged = FALSE
    /\ sniffer = <<>>
    /\ sample_counter = 0
    /\ accepted = 0
    /\ forwarded = {}
    /\ senders = TRUE

----------------------------------------------------------------------------
(* The classifier on arbitrary frames, with a consumer that frees the ring *)

\* A packet arrives on the interface: one classifier invocation.
Classify ==
    /\ \E h \in Headers : Invoke(h, 0)
    /\ UNCHANGED <<seqno, committed, ingestVars, trafficVars, cleanupVars, now, writerVars, auxVars>>

\* ring_buf.next() by the consumer: the oldest record leaves the ring.
Consume ==
    /\ ring # <<>>
    /\ ring' = Tail(ring)
    /\ UNCHANGED <<auxVars, classifierVars, seqno, committed, ingestVars, trafficVars,
                   cleanupVars, now, writerVars>>

NextClassifier == Classify \/ Consume

SpecClassifier == Init /\ [][NextClassifier]_vars

\* What the frame's header values say, independently of how they are read.
Classified == verdict # NoVerdict

IsIpv4(h)  == h.ether = EtherTypeIpv4
Captured   == Len(frame.data)

Eligible ==
    /\ Captured >= 14
    /\ IsIpv4(frame.hdr)
    /\ Captured >= 14 + 20
    /\ \/ frame.hdr.proto = 6  /\ Captured >= 14 + 20 + 20
       \/ frame.hdr.proto = 17 /\ Captured >= 14 + 20 + 8

\* C1: every classifier invocation returns TC_ACT_PIPE, whatever the path
\* (short frame, non-IPv4, truncated header, unsupported protocol, failed
\* reservation, successful emit).
C1_AlwaysPipe == Classified => verdict = TC_ACT_PIPE

\* C1 witness: the classifier ran on an eligible frame while the ring was full.
C1_Witness ==
    /\ Classified /\ verdict = TC_ACT_PIPE
    /\ Eligible /\ ~hadRoom /\ lastEmit = <<>>

\* C2: an invocation submits at most one event, and exactly one iff the
\* frame has 14 bytes, is IPv4, has 20 more bytes, is TCP with 20 further
\* bytes or UDP with 8 further bytes, and the ring reservation succeeds.
C2_EmitIff ==
    Classified =>
        /\ Len(lastEmit) <= 1
        /\ (Len(lastEmit) = 1) <=> (Eligible /\ hadRoom)

\* C2 witness: a UDP frame of exactly 42 captured bytes produced one event.
C2_Witness ==
    /\ Classified /\ Len(lastEmit) = 1
    /\ frame.hdr.proto = 17 /\ Captured = 42 /\ hadRoom

\* A valid TCP/IPv4 frame: complete headers captured, tot_len covering them.
ValidTcpFrame ==
    /\ IsIpv4(frame.hdr) /\ frame.hdr.proto = 6
    /\ Captured >= 14 + 4 * frame.hdr.ihl + 20
    /\ frame.hdr.totLen >= 4 * frame.hdr.ihl + 20

\* C3: for a valid TCP/IPv4 frame the emitted event reproduces the header
\* values (src, dst, sport, dport, 6, tot_len) in host byte order.
C3_RoundTrip ==
    (Classified /\ ValidTcpFrame /\ hadRoom) =>
        lastEmit = <<[src_addr |-> frame.hdr.src, dst_addr |-> frame.hdr.dst,
                      src_port |-> frame.hdr.sport, dst_port |-> frame.hdr.dport,
                      protocol |-> 6, pkt_len |-> frame.hdr.totLen]>>

\* C4: every submitted event has protocol in {6,17} and pkt_len >= 20.
C4_WireInvariant ==
    \A i \in 1..Len(ring) :
        ring[i].ev.protocol \in {6, 17} /\ ring[i].ev.pkt_len >= 20

----------------------------------------------------------------------------
(* PacketMetadata and the FlowKey *)

\* Ipv4Addr::from(u32).to_string(): the four octets, most significant first.
DottedQuad_lsb(a) == <<a[4], ".", a[3], ".", a[2], ".", a[1]>>

DottedQuad(a) == <<a[1], ".", a[2], ".", a[3], ".", a[4]>>

ProtocolName(n) ==
    IF n = 6 THEN "TCP" ELSE IF n = 17 THEN "UDP" ELSE <<"IP(", n, ")">>

\* PacketMetadata::from_ebpf at wall-clock time t.
from_ebpf(event, t) ==
    [timestamp |-> t,
     src_ip    |-> DottedQuad(event.src_addr),
     dst_ip    |-> DottedQuad(event.dst_addr),
     src_port  |-> event.src_port,
     dst_port  |-> event.dst_port,
     protocol  |-> ProtocolName(event.protocol),
     length    |-> event.pkt_len]

\* format!("{}:{} -> {}:{}", src_ip, src_port, dst_ip, dst_port)
FlowKey(packet) ==
    <<packet.src_ip, ":", packet.src_port, " -> ", packet.dst_ip, ":", packet.dst_port>>

----------------------------------------------------------------------------
(* TrafficState *)

Keys(m) == DOMAIN m

MapPut(m, k, v) == [x \in Keys(m) \cup {k} |-> IF x = k THEN v ELSE m[x]]

MapDel_all(m, k) == [x \in {} |-> m[x]]

MapDel(m, k) == [x \in Keys(m) \ {k} |-> m[x]]

RECURSIVE SumOver(_, _, _)
SumOver(m, ks, field) ==
    IF ks = {} THEN 0
    ELSE LET k == CHOOSE x \in ks : TRUE
         IN  m[k][field] + SumOver(m, ks \ {k}, field)

SumField(m, field) == SumOver(m, Keys(m), field)

\* or_insert_with: the record of a flow seen for the first time.
NewStats_default(packet, t) ==
    [bytes_sent |-> 0, bytes_received |-> 0, packets_count |-> 0, last_seen |-> t]

NewStats(packet, t) ==
    [bytes_sent |-> packet.length, bytes_received |-> 0, packets_count |-> 1, last_seen |-> t]

\* and_modify: the record of a flow seen again.
ModifiedStats_stale(stats, packet, t) ==
    [stats EXCEPT !.packets_count = @ + 1, !.bytes_sent = @ + packet.length]

ModifiedStats(stats, packet, t) ==
    [stats EXCEPT !.packets_count = @ + 1,
                  !.bytes_sent = @ + packet.length,
                  !.last_seen = t]

UpdateEntry_overwrite(packet) ==
    LET key == FlowKey(packet)
    IN  /\ connections' = MapPut(connections, key, NewStats(packet, now))
        /\ active_connections' = IF key \in Keys(connections)
                                 THEN active_connections
                                 ELSE active_connections + 1

\* update, first part: connections.entry(key).and_modify(..).or_insert_with(..),
\* one step under the entry's shard lock, active_connections included.
UpdateEntry(packet) ==
    LET key == FlowKey(packet)
    IN  IF key \in Keys(connections)
        THEN /\ connections' = MapPut(connections, key, ModifiedStats(connections[key], packet, now))
             /\ UNCHANGED active_connections
        ELSE /\ connections' = MapPut(connections, key, NewStats(packet, now))
             /\ active_connections' = active_connections + 1

UpdateTotalPackets_skip == total_packets' = total_packets

\* update, second part: total_packets.fetch_add(1).
UpdateTotalPackets == total_packets' = total_packets + 1

\* update, last part: total_bytes.fetch_add(length).
UpdateTotalBytes(packet) == total_bytes' = total_bytes + packet.length

\* cleanup_stale_connections: `let now = Instant::now()`, then the iteration
\* starts; it will visit every shard once.
AllKeys == { FlowKey(from_ebpf([src_addr |-> f.src, dst_addr |-> f.dst, src_port |-> f.sport,
                                dst_port |-> f.dport, protocol |-> 6, pkt_len |-> 0], 0)) : f \in Flows }

ConnectionTimeout == 1

IsStale_inclusive(t, last_seen) == Max(0, t - last_seen) >= ConnectionTimeout

\* now.duration_since(last_seen) > timeout, duration_since saturating at zero.
IsStale(t, last_seen) == Max(0, t - last_seen) > ConnectionTimeout

CleanupStart ==
    /\ cpc = "idle"
    /\ c_now' = now
    /\ to_remove' = {}
    /\ scanTodo' = AllKeys
    /\ cpc' = "scan"
    /\ removed' = {}
    /\ UNCHANGED <<removed_count, evicted, trafficVars>>
    /\ UNCHANGED <<auxVars, classifierVars, ringVars, ingestVars, now, writerVars>>

\* The iteration reaches the entry of key k, if there is one.
CleanupScan ==
    /\ cpc = "scan"
    /\ \E k \in scanTodo :
         /\ scanTodo' = scanTodo \ {k}
         /\ to_remove' = IF k \in Keys(connections) /\ IsStale(c_now, connections[k].last_seen)
                         THEN to_remove \cup {k} ELSE to_remove
    /\ UNCHANGED <<cpc, c_now, removed_count, evicted, removed, trafficVars>>
    /\ UNCHANGED <<auxVars, classifierVars, ringVars, ingestVars, now, writerVars>>

CleanupCount_maplen ==
    /\ cpc = "scan" /\ scanTodo = {}
    /\ removed_count' = Cardinality(Keys(connections))
    /\ cpc' = "remove"
    /\ UNCHANGED <<c_now, scanTodo, to_remove, evicted, removed, trafficVars>>
    /\ UNCHANGED <<auxVars, classifierVars, ringVars, ingestVars, now, writerVars>>

\* `let removed_count = to_remove.len()`.
CleanupCount ==
    /\ cpc = "scan" /\ scanTodo = {}
    /\ removed_count' = Cardinality(to_remove)
    /\ cpc' = "remove"
    /\ UNCHANGED <<c_now, scanTodo, to_remove, evicted, removed, trafficVars>>
    /\ UNCHANGED <<auxVars, classifierVars, ringVars, ingestVars, now, writerVars>>

\* connections.remove(&key) for one collected key.
CleanupRemove ==
    /\ cpc = "remove"
    /\ \E k \in to_remove :
         /\ to_remove' = to_remove \ {k}
         /\ IF k \in Keys(connections)
            THEN /\ connections' = MapDel(connections, k)
                 /\ evicted' = [packets_count |-> evicted.packets_count + connections[k].packets_count,
                                bytes_sent    |-> evicted.bytes_sent + connections[k].bytes_sent]
                 /\ removed' = removed \cup {[key |-> k, last_seen |-> connections[k].last_seen]}
            ELSE UNCHANGED <<connections, evicted, removed>>
    /\ UNCHANGED <<cpc, c_now, scanTodo, removed_count, total_packets, total_bytes,
                   active_connections>>
    /\ UNCHANGED <<auxVars, classifierVars, ringVars, ingestVars, now, writerVars>>

CleanupFinish_once ==
    /\ cpc = "remove" /\ to_remove = {}
    /\ active_connections' = IF removed_count > 0
                             THEN active_connections - 1
                             ELSE active_connections
    /\ cpc' = "idle"
    /\ removed' = {}
    /\ UNCHANGED <<c_now, scanTodo, to_remove, removed_count, evicted, connections,
                   total_packets, total_bytes>>
    /\ UNCHANGED <<auxVars, classifierVars, ringVars, ingestVars, now, writerVars>>

\* `if removed_count > 0 { active_connections.fetch_sub(removed_count) }`, return.
CleanupFinish ==
    /\ cpc = "remove" /\ to_remove = {}
    /\ active_connections' = IF removed_count > 0
                             THEN active_connections - removed_count
                             ELSE active_connections
    /\ cpc' = "idle"
    /\ removed' = {}
    /\ UNCHANGED <<c_now, scanTodo, to_remove, removed_count, evicted, connections,
                   total_packets, total_bytes>>
    /\ UNCHANGED <<auxVars, classifierVars, ringVars, ingestVars, now, writerVars>>

\* Time passes.
Tick ==
    /\ now < MaxTime
    /\ now' = now + 1
    /\ UNCHANGED <<auxVars, classifierVars, ringVars, ingestVars, trafficVars, cleanupVars, writerVars>>

----------------------------------------------------------------------------
(* poll_ring_buf: the ingest loop *)

\* ring_buf.next(): the record at the consumer position, the oldest one.
RingNext_newest(r) == r[Len(r)]

RingNext(r) == Head(r)

\* Dropping the RingBufItem advances the consumer position past the record.
RingRelease(r) == Tail(r)

\* The statements of one loop iteration, in program order: decode, then
\* update (entry, total_packets, total_bytes), then send, then the item is
\* dropped at the end of the loop body.
StepAfter_sendfirst(pc) ==
    CASE pc = "decode"        -> "send"
      [] pc = "send"          -> "entry"
      [] pc = "entry"         -> "count_packets"
      [] pc = "count_packets" -> "count_bytes"
      [] pc = "count_bytes"   -> "release"

StepAfter(pc) ==
    CASE pc = "decode"        -> "entry"
      [] pc = "entry"         -> "count_packets"
      [] pc = "count_packets" -> "count_bytes"
      [] pc = "count_bytes"   -> "send"
      [] pc = "send"          -> "release"

\* tx.send(meta).await on a live channel: waits while the channel is full.
ChanSend_try(c, m) ==
    [wait |-> FALSE, chan |-> IF Len(c) >= ChannelCapacity THEN c ELSE Append(c, m)]

ChanSend(c, m) ==
    [wait |-> Len(c) >= ChannelCapacity,
     chan |-> IF Len(c) >= ChannelCapacity THEN c ELSE Append(c, m)]

notIngest == <<auxVars, classifierVars, seqno, committed, cleanupVars, now>>

TooShort_never(item) == FALSE

\* `if item.len() < core::mem::size_of::<PacketEvent>() { continue; }`
TooShort(item) == item.size < PacketEventSize

\* `while let Some(item) = ring_buf.next()`: size check and decode.  The DNS
\* enrichment (resolve_dns, off by default) only fills the hostnames.
Poll ==
    /\ ipc = "poll" /\ ring # <<>>
    /\ LET item == RingNext(ring)
       IN  IF TooShort(item)
           THEN /\ ring' = RingRelease(ring)
                /\ UNCHANGED <<ipc, pending>>
           ELSE /\ pending' = [meta |-> from_ebpf(item.ev, now), id |-> item.id]
                /\ ipc' = StepAfter("decode")
                /\ UNCHANGED ring
    /\ UNCHANGED <<processed, sendFailed, trafficVars, writerVars, notIngest>>

\* ring_buf.next() returned None: tokio::time::sleep(1 ms).
PollEmpty ==
    /\ ipc = "poll" /\ ring = <<>>
    /\ ipc' = "sleep"
    /\ UNCHANGED <<ring, pending, processed, sendFailed, trafficVars, writerVars, notIngest>>

Wake ==
    /\ ipc = "sleep"
    /\ ipc' = "poll"
    /\ UNCHANGED <<ring, pending, processed, sendFailed, trafficVars, writerVars, notIngest>>

\* traffic_state.update(&meta), in its three atomic parts.
IngestEntry ==
    /\ ipc = "entry"
    /\ UpdateEntry(pending.meta)
    /\ processed' = Append(processed, pending.id)
    /\ ipc' = StepAfter("entry")
    /\ UNCHANGED <<ring, pending, sendFailed, total_packets, total_bytes, writerVars, notIngest>>

IngestTotalPackets ==
    /\ ipc = "count_packets"
    /\ UpdateTotalPackets
    /\ ipc' = StepAfter("count_packets")
    /\ UNCHANGED <<ring, pending, processed, sendFailed, connections, total_bytes,
                   active_connections, writerVars, notIngest>>

IngestTotalBytes ==
    /\ ipc = "count_bytes"
    /\ UpdateTotalBytes(pending.meta)
    /\ ipc' = StepAfter("count_bytes")
    /\ UNCHANGED <<ring, pending, processed, sendFailed, connections, total_packets,
                   active_connections, writerVars, notIngest>>

\* `let _ = tx.send(meta).await;`: the result is discarded.
IngestSend ==
    /\ ipc = "send"
    /\ IF rxAlive
       THEN LET r == ChanSend(chan, pending)
            IN  /\ ~r.wait
                /\ chan' = r.chan
                /\ UNCHANGED sendFailed
       ELSE /\ sendFailed' = TRUE
            /\ UNCHANGED chan
    /\ ipc' = StepAfter("send")
    /\ UNCHANGED <<ring, pending, processed, trafficVars, rxAlive, mode, buffer, buckets,
                   rows, received, wlast, wsel, notIngest>>

\* End of the loop body: the item is dropped, the ring slot is free again.
IngestRelease ==
    /\ ipc = "release"
    /\ ring' = RingRelease(ring)
    /\ pending' = <<>>
    /\ ipc' = "poll"
    /\ UNCHANGED <<processed, sendFailed, trafficVars, writerVars, notIngest>>

----------------------------------------------------------------------------
(* Storage: the writer task and the packets table *)

\* What the database does during one flush of n rows: the transaction fails
\* to begin, the INSERT fails to prepare, the commit fails, or the commit
\* succeeds with the rows in `failed` rejected by execute.  With `panic` the
\* eprintln! of an error path panics and the writer task is gone.
FlushOutcomes(n) ==
    { [kind |-> k, failed |-> {}] : k \in {"begin_err", "prepare_err", "commit_err", "panic"} }
    \cup { [kind |-> "ok", failed |-> f] : f \in SUBSET (1..n) }

\* The row INSERTed for one buffered packet.
PacketRow(p) ==
    [timestamp |-> p.meta.timestamp, src_ip |-> p.meta.src_ip, dst_ip |-> p.meta.dst_ip,
     src_port |-> p.meta.src_port, dst_port |-> p.meta.dst_port,
     protocol |-> p.meta.protocol, length |-> p.meta.length, ids |-> {p.id}]

BucketRow_count(b) ==
    [timestamp |-> b.first_timestamp, src_ip |-> b.src_ip, dst_ip |-> b.dst_ip,
     src_port |-> b.src_port, dst_port |-> b.dst_port,
     protocol |-> b.protocol, length |-> b.packet_count, ids |-> b.ids]

\* The row INSERTed for one bucket.
BucketRow(b) ==
    [timestamp |-> b.first_timestamp, src_ip |-> b.src_ip, dst_ip |-> b.dst_ip,
     src_port |-> b.src_port, dst_port |-> b.dst_port,
     protocol |-> b.protocol, length |-> b.total_bytes, ids |-> b.ids]

RECURSIVE Inserted(_, _, _)

Inserted_stop(rs, failed, i) ==
    LET bad == { j \in failed : j >= i /\ j <= Len(rs) }
    IN  IF bad = {} THEN SubSeq(rs, i, Len(rs))
        ELSE SubSeq(rs, i, (CHOOSE j \in bad : \A x \in bad : j <= x) - 1)

\* The rows of rs (from index i on) whose execute succeeded.
Inserted(rs, failed, i) ==
    IF i > Len(rs) THEN <<>>
    ELSE (IF i \in failed THEN <<>> ELSE <<rs[i]>>) \o Inserted(rs, failed, i + 1)

\* The rows executed inside the transaction when the flush met outcome o: none
\* before a failed begin or prepare, all of them before a failed commit.
Executed(rs, o) == IF o.kind = "commit_err" THEN rs ELSE <<>>

RolledBack_partial(table, executed) == table \o executed

\* A flush that returns without a successful commit drops its Transaction,
\* which rolls back: the rows executed inside it are not in the table.
RolledBack(table, executed) == table

flush_keep(buf, table, o) ==
    IF o.kind = "ok"
    THEN [rows   |-> table \o Inserted([i \in 1..Len(buf) |-> PacketRow(buf[i])], o.failed, 1),
          buffer |-> buf]
    ELSE [rows |-> table, buffer |-> buf]

\* Storage::flush(&mut buffer): the table and the buffer afterwards.
flush(buf, table, o) ==
    IF o.kind = "ok"
    THEN [rows   |-> table \o Inserted([i \in 1..Len(buf) |-> PacketRow(buf[i])], o.failed, 1),
          buffer |-> <<>>]
    ELSE [rows   |-> RolledBack(table, Executed([i \in 1..Len(buf) |-> PacketRow(buf[i])], o)),
          buffer |-> buf]

from_packet_nobytes(p) ==
    [first_timestamp |-> p.meta.timestamp, src_ip |-> p.meta.src_ip, dst_ip |-> p.meta.dst_ip,
     src_port |-> p.meta.src_port, dst_port |-> p.meta.dst_port, protocol |-> p.meta.protocol,
     packet_count |-> 1, total_bytes |-> 0, ids |-> {p.id},
     merged |-> <<p.meta>>]

\* AggregatedBucket::from_packet and merge.
from_packet(p) ==
    [first_timestamp |-> p.meta.timestamp, src_ip |-> p.meta.src_ip, dst_ip |-> p.meta.dst_ip,
     src_port |-> p.meta.src_port, dst_port |-> p.meta.dst_port, protocol |-> p.meta.protocol,
     packet_count |-> 1, total_bytes |-> p.meta.length, ids |-> {p.id},
     merged |-> <<p.meta>>]

merge_restamp(b, p) ==
    [b EXCEPT !.packet_count = @ + 1, !.total_bytes = @ + p.meta.length,
              !.first_timestamp = p.meta.timestamp,
              !.ids = @ \cup {p.id}, !.merged = Append(@, p.meta)]

merge(b, p) ==
    [b EXCEPT !.packet_count = @ + 1, !.total_bytes = @ + p.meta.length,
              !.ids = @ \cup {p.id}, !.merged = Append(@, p.meta)]

\* The orders in which HashMap::values() can yield the buckets.
Orders(ks) == { q \in [1..Cardinality(ks) -> ks] : \A i, j \in DOMAIN q : i # j => q[i] # q[j] }

\* Storage::flush_aggregated(&mut buckets), the buckets visited in order q.
flush_aggregated(bks, table, o, q) ==
    IF o.kind = "ok"
    THEN [rows    |-> table \o Inserted([i \in DOMAIN q |-> BucketRow(bks[q[i]])], o.failed, 1),
          buckets |-> <<>>]
    ELSE [rows |-> table, buckets |-> bks]

notWriter == <<auxVars, classifierVars, ringVars, ingestVars, trafficVars, cleanupVars, now>>

\* An iteration that called no flush, and one that flushed `batch` (the ids
\* of its rows, in order) with outcome o.
NoFlush == [op |-> "none", flushed |-> FALSE, kind |-> "none", failed |-> {}, batch |-> <<>>]

Flushed(op, o, batch) ==
    [op |-> op, flushed |-> TRUE, kind |-> o.kind, failed |-> o.failed, batch |-> batch]

ShouldFlush_late(n) == n > BatchSize

\* `if buffer.len() >= 1000`.
ShouldFlush(n) == n >= BatchSize

\* run_writer_raw, the rx.recv() arm: push, flush at 1000.
WriterRecvRaw ==
    /\ mode = "raw" /\ rxAlive /\ chan # <<>>
    /\ received' = Append(received, Head(chan).id)
    /\ LET buf == Append(buffer, Head(chan))
       IN  IF ShouldFlush(Len(buf))
           THEN \E o \in FlushOutcomes(Len(buf)) :
                  /\ wlast' = Flushed("recv", o, [i \in DOMAIN buf |-> {buf[i].id}])
                  /\ IF o.kind = "panic"
                     THEN /\ rxAlive' = FALSE /\ chan' = <<>> /\ buffer' = <<>>
                          /\ UNCHANGED rows
                     ELSE /\ buffer' = flush(buf, rows, o).buffer
                          /\ rows' = flush(buf, rows, o).rows
                          /\ chan' = Tail(chan)
                          /\ UNCHANGED rxAlive
           ELSE /\ buffer' = buf
                /\ chan' = Tail(chan)
                /\ wlast' = NoFlush
                /\ UNCHANGED <<rows, rxAlive>>
    /\ UNCHANGED <<mode, buckets, wsel, notWriter>>

\* run_writer_raw, the ticker arm: flush if the buffer is not empty.
WriterTickRaw ==
    /\ mode = "raw" /\ rxAlive
    /\ IF buffer # <<>>
       THEN \E o \in FlushOutcomes(Len(buffer)) :
              /\ wlast' = Flushed("tick", o, [i \in DOMAIN buffer |-> {buffer[i].id}])
              /\ IF o.kind = "panic"
                 THEN /\ rxAlive' = FALSE /\ chan' = <<>> /\ buffer' = <<>>
                      /\ UNCHANGED rows
                 ELSE /\ buffer' = flush(buffer, rows, o).buffer
                      /\ rows' = flush(buffer, rows, o).rows
                      /\ UNCHANGED <<chan, rxAlive>>
       ELSE /\ wlast' = NoFlush
            /\ UNCHANGED <<chan, rxAlive, buffer, rows>>
    /\ wsel' = "armed"
    /\ UNCHANGED <<mode, buckets, received, notWriter>>

\* run_writer_aggregated, the rx.recv() arm: merge into the bucket of the key.
WriterRecvAgg ==
    /\ mode = "agg" /\ rxAlive /\ chan # <<>>
    /\ received' = Append(received, Head(chan).id)
    /\ chan' = Tail(chan)
    /\ LET p   == Head(chan)
           key == FlowKey(p.meta)
       IN  buckets' = IF key \in Keys(buckets)
                      THEN MapPut(buckets, key, merge(buckets[key], p))
                      ELSE MapPut(buckets, key, from_packet(p))
    /\ wlast' = NoFlush
    /\ UNCHANGED <<mode, buffer, rows, rxAlive, wsel, notWriter>>

\* run_writer_aggregated, the ticker arm: flush if the map is not empty.
WriterTickAgg ==
    /\ mode = "agg" /\ rxAlive
    /\ IF Keys(buckets) # {}
       THEN \E o \in FlushOutcomes(Cardinality(Keys(buckets))), q \in Orders(Keys(buckets)) :
              /\ wlast' = Flushed("tick", o, [i \in DOMAIN q |-> buckets[q[i]].ids])
              /\ IF o.kind = "panic"
                 THEN /\ rxAlive' = FALSE /\ chan' = <<>> /\ buckets' = <<>>
                      /\ UNCHANGED rows
                 ELSE /\ buckets' = flush_aggregated(buckets, rows, o, q).buckets
                      /\ rows' = flush_aggregated(buckets, rows, o, q).rows
                      /\ UNCHANGED <<chan, rxAlive>>
       ELSE /\ wlast' = NoFlush
            /\ UNCHANGED <<chan, rxAlive, buckets, rows>>
    /\ wsel' = "armed"
    /\ UNCHANGED <<mode, buffer, received, notWriter>>

----------------------------------------------------------------------------
(* The pipeline: classifier, ring, ingest loop, writer *)

Hdr(proto, f, totLen) ==
    [ether |-> EtherTypeIpv4, ihl |-> 5, proto |-> proto, totLen |-> totLen, src |-> f.src,
     dst |-> f.dst, sport |-> f.sport, dport |-> f.dport, caplen |-> 54]

PipelineHeaders ==
    { Hdr(IpProtoTcp, Flow1, 1500), Hdr(IpProtoUdp, Flow2, 64), Hdr(1, Flow1, 84) }

\* A packet with one of the headers H arrives on the interface; the record it
\* commits is numbered.
CaptureOf(H) ==
    /\ seqno < MaxPackets
    /\ seqno' = seqno + 1
    /\ \E h \in H : Invoke(h, seqno + 1)
    /\ committed' = committed \o [i \in 1..Len(lastEmit') |-> seqno + 1]
    /\ UNCHANGED <<ingestVars, trafficVars, cleanupVars, now, writerVars, auxVars>>

Capture == CaptureOf(PipelineHeaders)

NextPipeline ==
    \/ Capture
    \/ Poll \/ PollEmpty \/ Wake
    \/ IngestEntry \/ IngestTotalPackets \/ IngestTotalBytes \/ IngestSend \/ IngestRelease
    \/ WriterRecvRaw \/ WriterTickRaw \/ WriterRecvAgg \/ WriterTickAgg

SpecPipeline == Init /\ [][NextPipeline]_vars

IsPrefix(a, b) == Len(a) <= Len(b) /\ \A i \in 1..Len(a) : a[i] = b[i]

Range(q) == { q[i] : i \in DOMAIN q }

Count(x, q) == Cardinality({ i \in DOMAIN q : q[i] = x })

UnionOf(S) == UNION S

\* Ids of the metadata held downstream of the ingest loop.
ChanIds   == { chan[i].id : i \in DOMAIN chan }
BufferIds == { buffer[i].id : i \in DOMAIN buffer }
BucketIds == UnionOf({ buckets[k].ids : k \in Keys(buckets) })
RowIds    == UnionOf({ rows[i].ids : i \in DOMAIN rows })
RingIds   == { ring[i].id : i \in DOMAIN ring }

\* C5: the events the ingest loop has processed are, in order, a prefix of
\* the events committed to the ring: none reordered, repeated or skipped.
C5_FifoPrefix == IsPrefix(processed, committed)

\* C5 witness: two records were processed while another one waited behind the
\* record in hand.
C5_Witness == Len(processed) >= 2 /\ Len(ring) = 2 /\ Len(committed) >= 3

\* C6: every metadata in the channel, in the writer's buffer or buckets, or
\* persisted as a row, is among those already counted in total_packets.
C6_UpdateBeforeSend ==
    \A id \in ChanIds \cup BufferIds \cup BucketIds \cup RowIds :
        \E i \in 1..total_packets : i <= Len(processed) /\ processed[i] = id

\* C6 witness: counted metadata sit in the channel, in the buffer or a
\* bucket, and in the table at once.
C6_Witness ==
    /\ chan # <<>> /\ rows # <<>>
    /\ (buffer # <<>> \/ Keys(buckets) # {})

\* C7: while the receiver exists, every record the ingest loop has consumed
\* from the ring was applied to live state once and delivered to the channel
\* once, also when the channel was full at the time of the send.
C7_Backpressure ==
    rxAlive =>
        /\ \A id \in Range(committed) \ RingIds :
              /\ Count(id, processed) = 1
              /\ Count(id, [i \in DOMAIN chan |-> chan[i].id] \o received) = 1
        /\ SumField(connections, "packets_count") = Len(processed)

\* C7 witness: the ingest loop has delivered a metadata for which it found
\* the channel full, and is waiting on a full channel again.
C7_Witness ==
    /\ rxAlive /\ ipc = "send" /\ Len(chan) = ChannelCapacity
    /\ Len(received) >= 1 /\ Cardinality(Range(committed) \ RingIds) >= ChannelCapacity

\* C8: after a send has failed because the receiver is gone, the ingest loop
\* takes no further record from the ring and makes no further update.
C8_ExitOnSendFailure ==
    [][sendFailed =>
         /\ ~(pending = <<>> /\ pending' # <<>>)
         /\ processed' = processed
         /\ connections' = connections
         /\ total_packets' = total_packets /\ total_bytes' = total_bytes]_vars

----------------------------------------------------------------------------
(* TrafficState under its two callers: update (ingest task) and            *)
(* cleanup_stale_connections (housekeeping task), with time passing        *)

Event(f, proto, len) ==
    [src_addr |-> f.src, dst_addr |-> f.dst, src_port |-> f.sport, dst_port |-> f.dport,
     protocol |-> proto, pkt_len |-> len]

StateEvents == { Event(Flow1, 6, 1500), Event(Flow1, 6, 40), Event(Flow2, 17, 64) }

notState == <<auxVars, classifierVars, ringVars, cleanupVars, now, writerVars>>

\* The ingest task calls update(&meta) with a freshly decoded metadata.
CallOf(E, n) ==
    /\ ipc = "poll" /\ Len(processed) < n
    /\ \E e \in E :
         pending' = [meta |-> from_ebpf(e, now), id |-> Len(processed) + 1]
    /\ ipc' = StepAfter("decode")
    /\ UNCHANGED <<processed, sendFailed, trafficVars, notState>>

Call == CallOf(StateEvents, MaxCalls)

\* update has returned; the caller goes on.
Return ==
    /\ ipc = "send"
    /\ pending' = <<>>
    /\ ipc' = "poll"
    /\ UNCHANGED <<processed, sendFailed, trafficVars, notState>>

NextState ==
    \/ Call \/ IngestEntry \/ IngestTotalPackets \/ IngestTotalBytes \/ Return
    \/ CleanupStart \/ CleanupScan \/ CleanupCount \/ CleanupRemove \/ CleanupFinish
    \/ Tick

SpecState == Init /\ [][NextState]_vars

\* C9: update on an absent FlowKey inserts {packets_count 1, bytes_sent
\* length} and adds 1 to active_connections; on a present FlowKey it adds 1
\* to packets_count, length to bytes_sent, sets last_seen to now and leaves
\* active_connections alone; nothing else increments active_connections.
C9_UpdateContract ==
    [][/\ (ipc = "entry" /\ ipc' # "entry") =>
            LET p == pending.meta
                k == FlowKey(p)
            IN  /\ IF k \notin Keys(connections)
                   THEN /\ connections'[k].packets_count = 1
                        /\ connections'[k].bytes_sent = p.length
                        /\ active_connections' = active_connections + 1
                   ELSE /\ connections'[k].packets_count = connections[k].packets_count + 1
                        /\ connections'[k].bytes_sent = connections[k].bytes_sent + p.length
                        /\ connections'[k].last_seen = now
                        /\ active_connections' = active_connections
                /\ Keys(connections') = Keys(connections) \cup {k}
                /\ \A x \in Keys(connections) \ {k} : connections'[x] = connections[x]
       /\ active_connections' > active_connections =>
            (ipc = "entry" /\ FlowKey(pending.meta) \notin Keys(connections))]_vars

\* C9 witness: a flow was inserted and later updated at a later time, while
\* another flow was inserted.
C9_Witness ==
    /\ active_connections = 2
    /\ \E k \in Keys(connections) :
         connections[k].packets_count = 2 /\ connections[k].last_seen >= 1

Quiescent == ipc = "poll" /\ cpc = "idle"

\* C10: when no update or cleanup is in progress, total_packets is the number
\* of update calls and the sum of packets_count over current and evicted
\* flows, and total_bytes is the corresponding sum of bytes_sent.
C10_Conservation ==
    Quiescent =>
        /\ total_packets = Len(processed)
        /\ total_packets = SumField(connections, "packets_count") + evicted.packets_count
        /\ total_bytes = SumField(connections, "bytes_sent") + evicted.bytes_sent

\* C10 witness: after an eviction and further updates.
C10_Witness ==
    /\ Quiescent /\ evicted.packets_count >= 1 /\ Keys(connections) # {}
    /\ total_packets = 3

----------------------------------------------------------------------------
(* Live-flow entries fed by the classifier's events *)

\* Frames as above, and frames whose tot_len field is 0 or 20.
LiveFlowHeaders ==
    PipelineHeaders \cup { Hdr(IpProtoTcp, Flow1, 0), Hdr(IpProtoTcp, Flow1, 20) }

CaptureAny == CaptureOf(LiveFlowHeaders)

\* Classifier, ring and ingest loop up to the channel.
NextLiveFlow ==
    \/ CaptureAny
    \/ Poll \/ PollEmpty \/ Wake
    \/ IngestEntry \/ IngestTotalPackets \/ IngestTotalBytes \/ IngestSend \/ IngestRelease

SpecLiveFlow == Init /\ [][NextLiveFlow]_vars

\* C11: every entry of the live-flow map has packets_count >= 1 and
\* bytes_sent >= packets_count * 20, whatever events the classifier emits.
C11_EntryInvariant ==
    \A k \in Keys(connections) :
        /\ connections[k].packets_count >= 1
        /\ connections[k].bytes_sent >= connections[k].packets_count * 20

----------------------------------------------------------------------------
(* Housekeeping against the live-flow map *)

\* C12: whenever no update or cleanup is in progress, active_connections is
\* the number of entries of the live-flow map, after any interleaving of
\* updates and evictions.
C12_ActiveIsMapSize ==
    Quiescent => active_connections = Cardinality(Keys(connections))

\* C12 witness: a flow was evicted, a flow was inserted after that, and both
\* tasks are at rest.
C12_Witness ==
    /\ Quiescent
    /\ evicted.packets_count >= 1
    /\ active_connections = 1
    /\ \E k \in Keys(connections) : connections[k].last_seen > c_now

\* A cleanup that runs while no update is in progress, and updates that wait
\* for it: the housekeeping task alone on the map.
CallQuiet == cpc = "idle" /\ Call

CleanupAlone == ipc = "poll" /\ CleanupStart

NextCleanup ==
    \/ CallQuiet \/ IngestEntry \/ IngestTotalPackets \/ IngestTotalBytes \/ Return
    \/ CleanupAlone \/ CleanupScan \/ CleanupCount \/ CleanupRemove \/ CleanupFinish
    \/ Tick

SpecCleanup == Init /\ [][NextCleanup]_vars

\* The removals of the running cleanup are done; it has not returned yet.
CleanupDone == cpc = "remove" /\ to_remove = {}

\* C13: a cleanup with no concurrent update removes exactly the flows whose
\* age now - last_seen is strictly greater than the timeout; a flow whose age
\* equals the timeout, or is smaller, is retained.
C13_RemovesExactlyStale ==
    CleanupDone =>
        /\ \A r \in removed :
             /\ c_now - r.last_seen > ConnectionTimeout
             /\ r.key \notin Keys(connections)
        /\ \A k \in Keys(connections) :
             c_now - connections[k].last_seen <= ConnectionTimeout
        /\ Cardinality(removed) = removed_count

\* C13 witness: one flow older than the timeout was removed and one flow of
\* age exactly the timeout was retained.
C13_Witness ==
    /\ CleanupDone
    /\ removed # {}
    /\ \E k \in Keys(connections) : c_now - connections[k].last_seen = ConnectionTimeout

\* C14: a cleanup decrements active_connections by exactly the number of
\* entries it removed, and leaves total_packets, total_bytes and every
\* retained entry unchanged.
C14_CleanupEffect ==
    [][cleanupVars' # cleanupVars =>
          /\ total_packets' = total_packets
          /\ total_bytes' = total_bytes
          /\ Keys(connections') \subseteq Keys(connections)
          /\ Keys(connections) \ Keys(connections') \subseteq to_remove
          /\ \A k \in Keys(connections') : connections'[k] = connections[k]
          /\ active_connections' = IF cpc = "remove" /\ cpc' = "idle"
                                   THEN active_connections - Cardinality(removed)
                                   ELSE active_connections]_vars

\* C14 witness: the only flow, one packet, was removed by a finished cleanup;
\* active_connections is 0 and total_packets still 1.
C14_Witness ==
    /\ Quiescent
    /\ evicted.packets_count = 1
    /\ Keys(connections) = {}
    /\ active_connections = 0
    /\ total_packets = 1

----------------------------------------------------------------------------
(* The writer task alone, fed through its channel *)

\* poll_ring_buf hands one metadata to the channel (tx.send), when there is
\* room; the metadata carries the wall clock of its decoding.
DeliverOf(E) ==
    /\ seqno < MaxSent /\ rxAlive
    /\ \E e \in E :
         LET r == ChanSend(chan, [meta |-> from_ebpf(e, now), id |-> seqno + 1])
         IN  ~r.wait /\ chan' = r.chan
    /\ seqno' = seqno + 1
    /\ UNCHANGED <<rxAlive, mode, buffer, buckets, rows, received, wlast, wsel>>
    /\ UNCHANGED <<auxVars, classifierVars, ring, committed, ingestVars, trafficVars, cleanupVars, now>>

Deliver == DeliverOf(StateEvents)

\* Time passes between two deliveries.
Elapse == now < MaxElapsed /\ Tick

NextWriter ==
    \/ Deliver
    \/ WriterRecvRaw \/ WriterTickRaw \/ WriterRecvAgg \/ WriterTickAgg
    \/ Elapse

SpecWriter == Init /\ [][NextWriter]_vars

IdsOf(batch) == UnionOf(Range(batch))

\* C16: in raw mode every received metadata is appended to the buffer, a
\* flush is called as soon as the buffer length reaches the batch size, and a
\* timer tick calls a flush if and only if the buffer is non-empty; no flush
\* is ever called on an empty buffer.
C16_RawFlushPolicy ==
    [][/\ WriterRecvRaw =>
            LET buf == Append(buffer, Head(chan))
            IN  /\ wlast'.flushed <=> Len(buf) >= BatchSize
                /\ wlast'.flushed => wlast'.batch = [i \in DOMAIN buf |-> {buf[i].id}]
                /\ ~wlast'.flushed => buffer' = buf
       /\ WriterTickRaw => (wlast'.flushed <=> buffer # <<>>)
       /\ (mode = "raw" /\ wlast'.flushed) => wlast'.batch # <<>>]_vars

\* C16 witness: a flush was called on reception when the buffer reached the
\* batch size, and its rows are in the table.
C16_Witness ==
    /\ mode = "raw" /\ wlast.op = "recv" /\ wlast.flushed
    /\ Len(wlast.batch) = BatchSize
    /\ IdsOf(wlast.batch) \subseteq RowIds

FailKinds == {"begin_err", "commit_err"}

\* C17: when a flush fails to begin or to commit, the batch is dropped and
\* never retried: after the failed flush the buffer (raw mode) or the bucket
\* map (aggregated mode) is empty, and the next flush writes none of that
\* batch's items.
C17_FailedFlushDropsBatch ==
    [][/\ (wlast'.flushed /\ wlast'.kind \in FailKinds) =>
            (buffer' = <<>> /\ Keys(buckets') = {})
       /\ (wlast.flushed /\ wlast.kind \in FailKinds) =>
            (IdsOf(wlast.batch) \cap UnionOf({ rows'[i].ids : i \in DOMAIN rows' }) = {})]_vars

\* A step of the writer in which flush or flush_aggregated ran.
FlushStep == (WriterRecvRaw \/ WriterTickRaw \/ WriterTickAgg) /\ wlast'.flushed

\* The ids of the rows a step appended to the table.
NewRowIds == { rows'[j].ids : j \in (Len(rows) + 1)..Len(rows') }

\* C18 as stated: when the prepare fails, or the execute of one row fails,
\* at most that one row of the batch is missing from the table afterwards.
C18_OnlyOffendingRowSkipped ==
    [][(/\ FlushStep
        /\ \/ wlast'.kind = "prepare_err"
           \/ wlast'.kind = "ok" /\ Cardinality(wlast'.failed) = 1) =>
          Len(rows') >= Len(rows) + Len(wlast'.batch) - 1]_vars

\* C18 as amended: when the execute of a row fails, only that row is skipped
\* and every other row of the batch is inserted by the same flush (and
\* committed with it when the commit succeeds); when the prepare fails the
\* flush inserts no row.
C18_ExecuteFailureSkipsRow ==
    [][FlushStep =>
          /\ wlast'.kind = "ok" =>
               /\ SubSeq(rows', 1, Len(rows)) = rows
               /\ Len(rows') = Len(rows) + Len(wlast'.batch) - Cardinality(wlast'.failed)
               /\ NewRowIds = { wlast'.batch[i] : i \in DOMAIN wlast'.batch \ wlast'.failed }
          /\ wlast'.kind = "prepare_err" => rows' = rows]_vars

\* C18 witness: a committed flush of at least two rows in which exactly one
\* row was rejected and another one is in the table.
C18_Witness ==
    /\ wlast.flushed /\ wlast.kind = "ok"
    /\ Cardinality(wlast.failed) = 1
    /\ \E i \in DOMAIN wlast.batch \ wlast.failed : wlast.batch[i] \subseteq RowIds
    /\ \E i \in wlast.failed : wlast.batch[i] \cap RowIds = {}

RECURSIVE SumLengths(_)
SumLengths(ms) == IF ms = <<>> THEN 0 ELSE Head(ms).length + SumLengths(Tail(ms))

\* C19: the bucket of a key counts the metadata of that key received since
\* the bucket map was last emptied, sums their lengths, and keeps the
\* timestamp of the first of them.
C19_AggregationLaw ==
    \A k \in Keys(buckets) :
        LET b == buckets[k]
        IN  /\ \A i \in DOMAIN b.merged : FlowKey(b.merged[i]) = k
            /\ b.packet_count = Len(b.merged)
            /\ b.total_bytes = SumLengths(b.merged)
            /\ b.first_timestamp = b.merged[1].timestamp

\* C19 witness: a bucket of three metadata, of different lengths, the later
\* ones stamped later than the first.
C19_Witness ==
    \E k \in Keys(buckets) :
        LET b == buckets[k]
        IN  /\ b.packet_count = 3
            /\ b.merged[2].timestamp > b.merged[1].timestamp
            /\ b.merged[2].length # b.merged[1].length

\* C20: a window tick with a non-empty bucket map calls a flush, and a flush
\* that succeeds persists exactly one row per bucket, its length the
\* bucket's total_bytes and its timestamp the bucket's first_timestamp, after
\* which the map is empty; a tick with an empty map writes nothing.
C20_WindowFlush ==
    [][WriterTickAgg =>
          IF Keys(buckets) = {}
          THEN rows' = rows /\ ~wlast'.flushed
          ELSE /\ wlast'.flushed
               /\ (wlast'.kind = "ok" /\ wlast'.failed = {}) =>
                    /\ SubSeq(rows', 1, Len(rows)) = rows
                    /\ Len(rows') = Len(rows) + Cardinality(Keys(buckets))
                    /\ \A k \in Keys(buckets) :
                         \E j \in (Len(rows) + 1)..Len(rows') :
                             /\ rows'[j].ids = buckets[k].ids
                             /\ rows'[j].length = buckets[k].total_bytes
                             /\ rows'[j].timestamp = buckets[k].first_timestamp
                    /\ Keys(buckets') = {}]_vars

\* C20 witness: three identical packets of length 1500 received in one
\* window became exactly one row of length 4500, and the map is empty.
C20_Witness ==
    /\ mode = "agg" /\ wlast.op = "tick" /\ wlast.kind = "ok"
    /\ Keys(buckets) = {}
    /\ Len(rows) = 1
    /\ rows[1].length = 3 * 1500 /\ Cardinality(rows[1].ids) = 3

----------------------------------------------------------------------------
(* Reading the packets table *)

Min(a, b) == IF a <= b THEN a ELSE b

\* The ways to pick n rows of the table in the order of
\* `ORDER BY timestamp DESC LIMIT n`; rows of equal timestamp come in any order.
Selections(table, n) ==
    { q \in [1..n -> DOMAIN table] :
        /\ \A i, j \in 1..n : i < j =>
              /\ q[i] # q[j]
              /\ table[q[i]].timestamp >= table[q[j]].timestamp
        /\ \A r \in DOMAIN table : (\A i \in 1..n : q[i] # r) =>
              \A i \in 1..n : table[r].timestamp <= table[q[i]].timestamp }

\* Storage::query_history(limit): the results the SELECT can return.
query_history(table, limit) ==
    LET n == Min(limit, Len(table))
    IN  { [i \in 1..n |-> table[q[i]]] : q \in Selections(table, n) }

----------------------------------------------------------------------------
(* One batch through the raw writer *)

\* Exactly BatchSize packets are ingested.
DeliverBatch == seqno < BatchSize /\ Deliver

NextBatch == DeliverBatch \/ WriterRecvRaw \/ WriterTickRaw \/ Elapse

SpecBatch == Init /\ [][NextBatch]_vars

\* C21 as stated: in raw mode, once exactly BatchSize (1000) packets have been
\* ingested and received, none lost to a database failure, the table holds
\* exactly that many rows, whenever the timer ticked in between.
C21_OneFlushAllRows ==
    (/\ mode = "raw" /\ seqno = BatchSize /\ Len(received) = BatchSize
     /\ wlast.kind \in {"none", "ok"}
     /\ RowIds \cup BufferIds = Range(received)) =>
        /\ Len(rows) = BatchSize
        /\ \A res \in query_history(rows, 2 * BatchSize) : Len(res) = BatchSize

\* C21 as amended: as long as no tick has flushed a part of the batch (the
\* buffer holds all that was received and the table is empty), no flush is
\* called at a reception before the last packet of the batch and one is
\* called at the last; if that flush succeeds with no row rejected the table
\* holds exactly the batch (query_history returns that many rows), the buffer
\* is empty, and a later tick calls no further flush.
C21_OneFlushWithoutTick ==
    [][mode = "raw" =>
          /\ (WriterRecvRaw /\ rows = <<>> /\ BufferIds = Range(received)) =>
               /\ Len(received') < BatchSize => (~wlast'.flushed /\ rows' = <<>>)
               /\ Len(received') = BatchSize =>
                    /\ wlast'.flushed /\ Len(wlast'.batch) = BatchSize
                    /\ (wlast'.kind = "ok" /\ wlast'.failed = {}) =>
                         /\ Len(rows') = BatchSize /\ buffer' = <<>>
                         /\ \A res \in query_history(rows', 2 * BatchSize) :
                              Len(res) = BatchSize
          /\ (WriterTickRaw /\ Len(received) = BatchSize /\ Len(rows) = BatchSize) =>
               (~wlast'.flushed /\ rows' = rows)]_vars

\* C21 witness: the whole batch is in the table, written by the flush at the
\* reception of its last packet, and the timer has ticked since.
C21_Witness ==
    /\ mode = "raw" /\ Len(received) = BatchSize /\ Len(rows) = BatchSize
    /\ RowIds = Range(received)
    /\ ~wlast.flushed

----------------------------------------------------------------------------
(* GET /api/history *)

\* Option<usize>: None is <<>>, Some(n) is <<n>>.
None == <<>>
Some(n) == <<n>>
unwrap_or(opt, d) == IF opt = None THEN d ELSE opt[1]

HistoryLimit_unclamped(param) == unwrap_or(param, HistoryDefault)

\* `params.limit.unwrap_or(100).min(1000)`.
HistoryLimit(param) == Min(unwrap_or(param, HistoryDefault), HistoryCap)

\* The limits a request can carry.
HistoryParams == {None} \cup { Some(n) : n \in 0..(HistoryCap + 1) }

\* get_history: the rows found, or the error of a failed query.
GetHistory ==
    /\ \E param \in HistoryParams :
         \/ \E res \in query_history(rows, HistoryLimit(param)) :
              hist' = [limit |-> param, ok |-> TRUE, response |-> res]
         \/ hist' = [limit |-> param, ok |-> FALSE, response |-> <<>>]
    /\ UNCHANGED <<pruned, dbVars, flowVars, decodeVars, metricsVars, dnsVars,
                   configVars, snifferVars, closeVars, classifierVars, ringVars, ingestVars, trafficVars, cleanupVars, now,
                   writerVars>>

\* The table is filled with the metadata of one kind of packet.
DeliverOne == DeliverOf({Event(Flow1, 6, 1500)})

NextHistory ==
    \/ DeliverOne \/ WriterRecvRaw \/ WriterTickRaw \/ Elapse
    \/ GetHistory

SpecHistory == Init /\ [][NextHistory]_vars

\* The number of rows a successful history read has to return.
Expected(param) ==
    Min(Min(IF param = None THEN HistoryDefault ELSE param[1], HistoryCap), Len(rows))

\* C22: a successful history read returns exactly min(limit, 1000, number of
\* rows) rows, the ones with the greatest timestamps, in non-increasing
\* timestamp order; limit 0 gives an empty result, a limit above the cap is
\* clamped to it and an absent limit is 100 (scaled: HistoryCap, HistoryDefault).
C22_HistoryContract ==
    [][(hist' # hist /\ hist'.ok) =>
          LET res == hist'.response
              n   == Expected(hist'.limit)
          IN  /\ Len(res) = n
              /\ \A i \in 1..(n - 1) : res[i].timestamp >= res[i + 1].timestamp
              /\ \E q \in [1..n -> DOMAIN rows] :
                   /\ \A i \in 1..n : rows[q[i]] = res[i]
                   /\ \A i, j \in 1..n : i # j => q[i] # q[j]
                   /\ \A r \in DOMAIN rows \ Range(q) :
                        \A i \in 1..n : rows[r].timestamp <= res[i].timestamp
              /\ hist'.limit = Some(0) => res = <<>>]_vars

\* C22 witness: a request with a limit above the cap, on a table of more rows
\* than the cap with different timestamps, was answered with the cap's number
\* of rows.
C22_Witness ==
    /\ hist.ok /\ hist.limit = Some(HistoryCap + 1)
    /\ Len(rows) > HistoryCap
    /\ Len(hist.response) = HistoryCap
    /\ \E i, j \in DOMAIN rows : rows[i].timestamp < rows[j].timestamp

----------------------------------------------------------------------------
(* Retention: delete_old_data *)

\* `now - (older_than_seconds as i64 * 1000)`.
Cutoff(t, seconds) == t - seconds * MsPerSecond

Expired_inclusive(row, cutoff_ms) == row.timestamp <= cutoff_ms

\* `WHERE timestamp < ?1`.
Expired(row, cutoff_ms) == row.timestamp < cutoff_ms

\* The retention periods of the configuration.
RetentionChoices == 0..MaxSeconds

\* Storage::delete_old_data(older_than_seconds), called by the retention
\* task: one DELETE statement, which removes the expired rows and returns
\* their number, or fails and removes nothing.
DeleteOldData ==
    /\ \E seconds \in RetentionChoices :
         LET cutoff_ms == Cutoff(now, seconds)
             kept      == SelectSeq(rows, LAMBDA r : ~Expired(r, cutoff_ms))
         IN  \/ /\ rows' = kept
                /\ pruned' = [seconds |-> seconds, at |-> now, ok |-> TRUE,
                              deleted |-> Len(rows) - Len(kept)]
             \/ /\ rows' = rows
                /\ pruned' = [seconds |-> seconds, at |-> now, ok |-> FALSE, deleted |-> 0]
    /\ UNCHANGED <<hist, dbVars, flowVars, decodeVars, metricsVars, dnsVars,
                   configVars, snifferVars, closeVars, classifierVars, ringVars, ingestVars, trafficVars, cleanupVars, now>>
    /\ UNCHANGED <<chan, rxAlive, mode, buffer, buckets, received, wlast, wsel>>

\* A whole second passes.
ElapseSecond ==
    /\ now < MaxSeconds * MsPerSecond
    /\ now' = now + MsPerSecond
    /\ UNCHANGED <<auxVars, classifierVars, ringVars, ingestVars, trafficVars, cleanupVars, writerVars>>

\* The packets of one batch are stored.
DeliverOneBatch == seqno < BatchSize /\ DeliverOne

NextRetention ==
    \/ DeliverOneBatch \/ WriterRecvRaw \/ WriterTickRaw \/ Elapse \/ ElapseSecond
    \/ DeleteOldData

SpecRetention == Init /\ [][NextRetention]_vars

\* C23: a successful delete_old_data(retention_seconds) deletes exactly the
\* rows whose timestamp is below now_ms - retention_seconds * 1000, returns
\* their number and leaves every row at or above the cutoff in place.
C23_RetentionCutoff ==
    [][(DeleteOldData /\ pruned'.ok) =>
          LET cutoff_ms == now - pruned'.seconds * 1000
              old       == { i \in DOMAIN rows : rows[i].timestamp < cutoff_ms }
          IN  /\ pruned'.deleted = Cardinality(old)
              /\ Len(rows') = Len(rows) - Cardinality(old)
              /\ \A i \in DOMAIN rows :
                   (i \notin old) <=> (\E j \in DOMAIN rows' : rows'[j] = rows[i])
              /\ \A j \in DOMAIN rows' : rows'[j].timestamp >= cutoff_ms]_vars

\* C23 witness: a deletion with a positive retention period removed a row and
\* left a row stamped exactly at the cutoff.
C23_Witness ==
    /\ pruned.ok /\ pruned.seconds > 0 /\ pruned.deleted > 0
    /\ \E j \in DOMAIN rows : rows[j].timestamp = pruned.at - pruned.seconds * 1000

----------------------------------------------------------------------------
(* The shared database handle, statement by statement *)

notDb == <<flowVars, decodeVars, metricsVars, dnsVars, configVars, snifferVars, closeVars,
          classifierVars, ringVars, ingestVars, trafficVars, cleanupVars, now>>

\* A task holds the mutex guard from its lock() until its function returns.
Holds(t) == dpc[t] \notin {"idle", "flush"}

MutexFree_shared == TRUE

\* Mutex::lock returns only when no other task holds the guard.
MutexFree == \A t \in DbTasks : ~Holds(t)

Goto(t, pos) == dpc' = [dpc EXCEPT ![t] = pos]

\* What a statement that is not part of the open transaction's batch sees
\* committed: the table without the uncommitted inserts.
Committed == IF txn.open THEN txn.base ELSE rows

\* The writer's rx.recv() arm up to the call of flush.
DbRecv ==
    /\ dpc["writer"] = "idle" /\ rxAlive /\ chan # <<>>
    /\ received' = Append(received, Head(chan).id)
    /\ chan' = Tail(chan)
    /\ LET p == Head(chan)
       IN  IF mode = "raw"
           THEN /\ buffer' = Append(buffer, p)
                /\ Goto("writer", IF ShouldFlush(Len(buffer')) THEN "flush" ELSE "idle")
                /\ UNCHANGED buckets
           ELSE /\ buckets' = IF FlowKey(p.meta) \in Keys(buckets)
                              THEN MapPut(buckets, FlowKey(p.meta), merge(buckets[FlowKey(p.meta)], p))
                              ELSE MapPut(buckets, FlowKey(p.meta), from_packet(p))
                /\ UNCHANGED <<buffer, dpc>>
    /\ UNCHANGED <<rxAlive, mode, rows, wlast, wsel, apiVars, txn, todo, seqno, notDb>>

\* The writer's ticker arm up to the call of flush or flush_aggregated.
DbTick ==
    /\ dpc["writer"] = "idle" /\ rxAlive
    /\ IF mode = "raw" THEN buffer # <<>> ELSE Keys(buckets) # {}
    /\ Goto("writer", "flush")
    /\ UNCHANGED <<writerVars, apiVars, txn, todo, seqno, notDb>>

\* flush / flush_aggregated: `self.conn.lock().unwrap()`.
FlushLock ==
    /\ dpc["writer"] = "flush" /\ MutexFree
    /\ Goto("writer", "begin")
    /\ UNCHANGED <<writerVars, apiVars, txn, todo, seqno, notDb>>

\* `conn.transaction()`: BEGIN, or the early return.
FlushBegin ==
    /\ dpc["writer"] = "begin"
    /\ \/ /\ txn' = [open |-> TRUE, base |-> rows]
          /\ Goto("writer", "prepare")
       \/ /\ Goto("writer", "return")
          /\ UNCHANGED txn
    /\ UNCHANGED <<writerVars, apiVars, todo, seqno, notDb>>

\* `tx.prepare(INSERT ...)`; on the early return the dropped transaction
\* rolls back.  The rows to insert are the buffer's, in order, or the
\* buckets', in the order of the map's iteration.
FlushPrepare ==
    /\ dpc["writer"] = "prepare"
    /\ \/ /\ IF mode = "raw"
             THEN todo' = [i \in DOMAIN buffer |-> PacketRow(buffer[i])]
             ELSE \E q \in Orders(Keys(buckets)) :
                    todo' = [i \in DOMAIN q |-> BucketRow(buckets[q[i]])]
          /\ Goto("writer", "execute")
          /\ UNCHANGED <<txn, rows>>
       \/ /\ rows' = txn.base
          /\ txn' = [open |-> FALSE, base |-> <<>>]
          /\ Goto("writer", "return")
          /\ UNCHANGED todo
    /\ UNCHANGED <<chan, rxAlive, mode, buffer, buckets, received, wlast, wsel, apiVars, seqno, notDb>>

\* One `stmt.execute(params![...])` of the loop: the row is inserted, or the
\* error is printed and the loop goes on.
FlushExecute ==
    /\ dpc["writer"] = "execute" /\ todo # <<>>
    /\ rows' \in {Append(rows, Head(todo)), rows}
    /\ todo' = Tail(todo)
    /\ UNCHANGED <<chan, rxAlive, mode, buffer, buckets, received, wlast, wsel, apiVars, dpc, txn,
                   seqno, notDb>>

\* `tx.commit()`: on success the batch is cleared, on failure the
\* transaction is rolled back and the batch kept.
FlushCommit ==
    /\ dpc["writer"] = "execute" /\ todo = <<>>
    /\ txn' = [open |-> FALSE, base |-> <<>>]
    /\ \/ /\ IF mode = "raw" THEN buffer' = <<>> /\ UNCHANGED buckets
                             ELSE buckets' = <<>> /\ UNCHANGED buffer
          /\ UNCHANGED rows
       \/ /\ rows' = txn.base
          /\ UNCHANGED <<buffer, buckets>>
    /\ Goto("writer", "return")
    /\ UNCHANGED <<chan, rxAlive, mode, received, wlast, wsel, apiVars, todo, seqno, notDb>>

Released_leak == "return"

\* Where a task is once its function has returned: the MutexGuard went out
\* of scope with it.
Released == "idle"

\* The function returns and the guard is dropped.
DbReturn(t) ==
    /\ dpc[t] = "return"
    /\ Goto(t, Released)
    /\ UNCHANGED <<writerVars, apiVars, txn, todo, seqno, notDb>>

\* query_history: `self.conn.lock().unwrap()`.
HistLock ==
    /\ dpc["reader"] = "idle" /\ MutexFree
    /\ Goto("reader", "query")
    /\ UNCHANGED <<writerVars, apiVars, txn, todo, seqno, notDb>>

\* query_history: the SELECT, on the connection as it is, for a request with
\* one of the limits P.
HistQueryOf(P) ==
    /\ dpc["reader"] = "query"
    /\ \E param \in P :
         \/ \E res \in query_history(rows, HistoryLimit(param)) :
              hist' = [limit |-> param, ok |-> TRUE, response |-> res]
         \/ hist' = [limit |-> param, ok |-> FALSE, response |-> <<>>]
    /\ Goto("reader", "return")
    /\ UNCHANGED <<writerVars, pruned, txn, todo, seqno, notDb>>

\* delete_old_data: `self.conn.lock().unwrap()`, the cutoff being computed
\* before.
PruneLock ==
    /\ dpc["retention"] = "idle" /\ MutexFree
    /\ Goto("retention", "delete")
    /\ UNCHANGED <<writerVars, apiVars, txn, todo, seqno, notDb>>

\* delete_old_data: the DELETE, on the connection as it is, for one of the
\* retention periods S.
PruneDeleteOf(S) ==
    /\ dpc["retention"] = "delete"
    /\ \E seconds \in S :
         LET kept == SelectSeq(rows, LAMBDA r : ~Expired(r, Cutoff(now, seconds)))
         IN  \/ /\ rows' = kept
                /\ pruned' = [seconds |-> seconds, at |-> now, ok |-> TRUE,
                              deleted |-> Len(rows) - Len(kept)]
             \/ /\ rows' = rows
                /\ pruned' = [seconds |-> seconds, at |-> now, ok |-> FALSE, deleted |-> 0]
    /\ Goto("retention", "return")
    /\ UNCHANGED <<chan, rxAlive, mode, buffer, buckets, received, wlast, wsel, hist, txn, todo,
                   seqno, notDb>>

\* The requests ask for as many rows as are served, and the retention task
\* keeps nothing older than the present.
HistQuery == HistQueryOf({Some(HistoryCap)})

PruneDelete == PruneDeleteOf({0})

NextDb ==
    \/ DeliverOneBatch \/ Elapse
    \/ DbRecv \/ DbTick
    \/ FlushLock \/ FlushBegin \/ FlushPrepare \/ FlushExecute \/ FlushCommit
    \/ HistLock \/ HistQuery
    \/ PruneLock \/ PruneDelete
    \/ \E t \in DbTasks : DbReturn(t)

SpecDb == Init /\ [][NextDb]_vars

\* C24: the database handle is held by at most one task at a time: between
\* the begin of a flush and its commit or abort only the writer holds it, no
\* statement of query_history or delete_old_data executes, and a history
\* read never returns rows of a batch that is not committed.
C24_HandleExclusive ==
    /\ [](/\ Cardinality({ t \in DbTasks : Holds(t) }) <= 1
          /\ txn.open => (/\ Holds("writer")
                          /\ dpc["reader"] = "idle" /\ dpc["retention"] = "idle"))
    /\ [][(HistQuery \/ PruneDelete) =>
            /\ ~txn.open
            /\ (HistQuery /\ hist'.ok) =>
                  hist'.response \in query_history(Committed, HistoryLimit(hist'.limit))]_vars

\* C24 witness: a flush has inserted a part of its batch and not committed,
\* after a history read and a deletion have run.
C24_Witness ==
    /\ txn.open /\ Len(rows) > Len(txn.base) /\ todo # <<>>
    /\ hist.ok /\ pruned.ok

----------------------------------------------------------------------------
(* Flows and their keys *)

\* The flow of a packet: (src_ip, src_port, dst_ip, dst_port, protocol).
FiveTuple(packet) ==
    <<packet.src_ip, packet.src_port, packet.dst_ip, packet.dst_port, packet.protocol>>

\* A TCP and a UDP packet between the same endpoints, and another flow.
FlowEvents == { Event(Flow1, 6, 1500), Event(Flow1, 17, 64), Event(Flow2, 17, 64) }

\* poll_ring_buf on one record, with nothing else running: decode, update
\* the live state, send to the writer.
IngestFlow ==
    /\ seqno < MaxSent /\ rxAlive
    /\ \E e \in FlowEvents :
         LET meta == from_ebpf(e, now)
             r    == ChanSend(chan, [meta |-> meta, id |-> seqno + 1])
         IN  /\ ~r.wait /\ chan' = r.chan
             /\ UpdateEntry(meta)
             /\ UpdateTotalPackets
             /\ UpdateTotalBytes(meta)
             /\ joined' = MapPut(joined, FlowKey(meta),
                                 (IF FlowKey(meta) \in Keys(joined) THEN joined[FlowKey(meta)] ELSE {})
                                     \cup {FiveTuple(meta)})
    /\ seqno' = seqno + 1
    /\ UNCHANGED <<rxAlive, mode, buffer, buckets, rows, received, wlast, wsel>>
    /\ UNCHANGED <<apiVars, dbVars, decodeVars, metricsVars, dnsVars, configVars, snifferVars, closeVars,
                   classifierVars, ring,
                   committed, ingestVars,
                   cleanupVars, now>>

NextFlows == IngestFlow \/ WriterRecvRaw \/ WriterRecvAgg

SpecFlows == Init /\ [][NextFlows]_vars

\* The flows merged into the bucket of key k.
BucketFlows(k) == { FiveTuple(buckets[k].merged[i]) : i \in DOMAIN buckets[k].merged }

\* C25: two packets share a live-flow entry, and an aggregation bucket, if
\* and only if they agree on all five fields of the flow: every entry and
\* every bucket holds the packets of one flow, and no flow is spread over two.
C25_KeyIsFiveTuple ==
    /\ \A k \in Keys(connections) : Cardinality(joined[k]) = 1
    /\ \A k \in Keys(buckets) : Cardinality(BucketFlows(k)) = 1
    /\ \A k1, k2 \in Keys(connections) : k1 # k2 => joined[k1] \cap joined[k2] = {}
    /\ \A k1, k2 \in Keys(buckets) : k1 # k2 => BucketFlows(k1) \cap BucketFlows(k2) = {}

----------------------------------------------------------------------------
(* PacketMetadata::from_ebpf on arbitrary events *)

\* The events decoded: the flows of the unit tests and a third one, protocols
\* with and without a name, lengths from 0 to the greatest tot_len.
DecodeFlows ==
    Flows \cup {[src |-> Addr(255, 0, 1, 254), sport |-> 0, dst |-> Addr(0, 0, 0, 0), dport |-> 65535]}

DecodeEvents ==
    { Event(f, proto, len) : f \in DecodeFlows, proto \in {6, 17, 1, 0, 255}, len \in {0, 64, 1500, 65535} }

\* poll_ring_buf lifts one record: `PacketMetadata::from_ebpf(&event)`.
Decode ==
    /\ \E e \in DecodeEvents : decoded' = [event |-> e, meta |-> from_ebpf(e, now)]
    /\ UNCHANGED <<apiVars, dbVars, flowVars, metricsVars, dnsVars, configVars, snifferVars, closeVars,
                   classifierVars, ringVars,
                   ingestVars,
                   trafficVars, cleanupVars, now, writerVars>>

NextDecode == Decode \/ Elapse

SpecDecode == Init /\ [][NextDecode]_vars

\* The number a dotted quad denotes, in two halves of sixteen bits, and the
\* same for the u32 of an address (held as its bytes, as from_be_bytes takes
\* them).
QuadHigh(q) == q[1] * 256 + q[3]
QuadLow(q)  == q[5] * 256 + q[7]
AddrHigh(a) == a[1] * 256 + a[2]
AddrLow(a)  == a[3] * 256 + a[4]

IsDottedQuadOf(q, a) ==
    /\ Len(q) = 7 /\ q[2] = "." /\ q[4] = "." /\ q[6] = "."
    /\ \A i \in {1, 3, 5, 7} : q[i] \in 0..255
    /\ QuadHigh(q) = AddrHigh(a) /\ QuadLow(q) = AddrLow(a)

\* C27: from_ebpf copies src_port, dst_port and pkt_len unchanged, renders
\* each address as the dotted quad of its u32 with the most significant octet
\* first, and maps protocol 6 to "TCP", 17 to "UDP" and any other n to "IP(n)".
C27_FromEbpf ==
    decoded # <<>> =>
        LET e == decoded.event
            m == decoded.meta
        IN  /\ m.src_port = e.src_port /\ m.dst_port = e.dst_port
            /\ m.length = e.pkt_len
            /\ IsDottedQuadOf(m.src_ip, e.src_addr)
            /\ IsDottedQuadOf(m.dst_ip, e.dst_addr)
            /\ IF e.protocol = 6 THEN m.protocol = "TCP"
               ELSE IF e.protocol = 17 THEN m.protocol = "UDP"
               ELSE m.protocol = <<"IP(", e.protocol, ")">>

\* C27 witness: the event of the unit test test_from_ebpf_tcp but with
\* protocol 1 was decoded to 10.0.0.1 -> 192.168.1.100, "IP(1)".
C27_Witness ==
    /\ decoded # <<>>
    /\ decoded.event.src_addr = Addr(10, 0, 0, 1) /\ decoded.event.protocol = 1
    /\ decoded.meta.src_ip = <<10, ".", 0, ".", 0, ".", 1>>
    /\ decoded.meta.dst_ip = <<192, ".", 168, ".", 1, ".", 100>>
    /\ decoded.meta.protocol = <<"IP(", 1, ")">>
    /\ decoded.meta.length = 1500

----------------------------------------------------------------------------
(* GET /metrics: get_metrics, load by load *)

notMetrics == <<apiVars, dbVars, flowVars, decodeVars, dnsVars, configVars, snifferVars, closeVars, classifierVars, ringVars, ingestVars,
                trafficVars, cleanupVars, now, writerVars>>

Running(h) == mpc[h] # "idle"

\* The handler h goes to position pos with its locals changed to loc.
Advance(h, pos, loc) ==
    /\ mpc' = [mpc EXCEPT ![h] = pos]
    /\ mloc' = [mloc EXCEPT ![h] = loc]

\* `total_packets.load(Relaxed)`: the request starts.
SyncLoadPackets(h) ==
    /\ mpc[h] = "idle"
    /\ Advance(h, "load_b", [NoLocals EXCEPT !.total_pkts = total_packets])
    /\ overlapped' = [x \in Scrapers |->
                        IF x = h THEN \E y \in Scrapers \ {h} : Running(y)
                        ELSE overlapped[x] \/ Running(x)]
    /\ UNCHANGED <<exported, msync, notMetrics>>

\* `total_bytes.load(Relaxed)`.
SyncLoadBytes(h) ==
    /\ mpc[h] = "load_b"
    /\ Advance(h, "load_a", [mloc[h] EXCEPT !.total_b = total_bytes])
    /\ UNCHANGED <<exported, overlapped, msync, notMetrics>>

\* `active_connections.load(Relaxed)`.
SyncLoadActive(h) ==
    /\ mpc[h] = "load_a"
    /\ Advance(h, "get_p", [mloc[h] EXCEPT !.active = active_connections])
    /\ UNCHANGED <<exported, overlapped, msync, notMetrics>>

\* `let current_pkts = metrics.packets_total.get()`.
SyncGetPackets(h) ==
    /\ mpc[h] = "get_p"
    /\ Advance(h, "inc_p", [mloc[h] EXCEPT !.current = exported.packets])
    /\ UNCHANGED <<exported, overlapped, msync, notMetrics>>

\* Counter::inc_by(v).
inc_by(counter, v) == counter + v

\* `if total_pkts > current_pkts { packets_total.inc_by(total_pkts - current_pkts) }`.
SyncIncPackets(h) ==
    /\ mpc[h] = "inc_p"
    /\ exported' = IF mloc[h].total_pkts > mloc[h].current
                   THEN [exported EXCEPT
                           !.packets = inc_by(@, mloc[h].total_pkts - mloc[h].current)]
                   ELSE exported
    /\ Advance(h, "get_b", mloc[h])
    /\ UNCHANGED <<overlapped, msync, notMetrics>>

\* `let current_b = metrics.bytes_total.get()`.
SyncGetBytes(h) ==
    /\ mpc[h] = "get_b"
    /\ Advance(h, "inc_b", [mloc[h] EXCEPT !.current = exported.bytes])
    /\ UNCHANGED <<exported, overlapped, msync, notMetrics>>

\* `if total_b > current_b { bytes_total.inc_by(total_b - current_b) }`.
SyncIncBytes(h) ==
    /\ mpc[h] = "inc_b"
    /\ exported' = IF mloc[h].total_b > mloc[h].current
                   THEN [exported EXCEPT !.bytes = inc_by(@, mloc[h].total_b - mloc[h].current)]
                   ELSE exported
    /\ Advance(h, "set_a", mloc[h])
    /\ UNCHANGED <<overlapped, msync, notMetrics>>

\* `active_connections.set(active as i64)`, the encoding, and the response.
SyncFinish(h) ==
    /\ mpc[h] = "set_a"
    /\ exported' = [exported EXCEPT !.active = mloc[h].active]
    /\ msync' = [alone |-> ~overlapped[h], total_pkts |-> mloc[h].total_pkts,
                 total_b |-> mloc[h].total_b, done |-> TRUE]
    /\ Advance(h, "idle", NoLocals)
    /\ UNCHANGED <<overlapped, notMetrics>>

Sync(h) ==
    \/ SyncLoadPackets(h) \/ SyncLoadBytes(h) \/ SyncLoadActive(h)
    \/ SyncGetPackets(h) \/ SyncIncPackets(h)
    \/ SyncGetBytes(h) \/ SyncIncBytes(h)
    \/ SyncFinish(h)

\* The packets counted while the requests are served.
CallCounted == CallOf({Event(Flow1, 6, 40)}, MaxCounted)

NextMetrics ==
    \/ CallCounted \/ IngestEntry \/ IngestTotalPackets \/ IngestTotalBytes \/ Return
    \/ \E h \in Scrapers : Sync(h)

SpecMetrics == Init /\ [][NextMetrics]_vars

\* C26: each metrics sync advances packets_total and bytes_total by
\* max(0, atomic value - last exported value); the exported counters never
\* decrease, and when a sync that ran alone finishes, each exported counter
\* equals the atomic total that sync read.
C26_SyncAdvance ==
    [][/\ exported'.packets >= exported.packets
       /\ exported'.bytes >= exported.bytes
       /\ \A h \in Scrapers :
            /\ SyncIncPackets(h) =>
                 exported'.packets - exported.packets
                     = Max(0, mloc[h].total_pkts - exported.packets)
            /\ SyncIncBytes(h) =>
                 exported'.bytes - exported.bytes = Max(0, mloc[h].total_b - exported.bytes)
            /\ (SyncFinish(h) /\ msync'.alone) =>
                 /\ exported'.packets = msync'.total_pkts
                 /\ exported'.bytes = msync'.total_b]_vars

----------------------------------------------------------------------------
(* DnsCache::resolve *)

notDns == <<apiVars, dbVars, flowVars, decodeVars, metricsVars, configVars, snifferVars, closeVars, classifierVars, ringVars,
            ingestVars, trafficVars, cleanupVars, writerVars>>

\* `ip_str.parse::<IpAddr>()` on a text of numbers and separators: four
\* octets between dots, or an error.
ParseIp(ip_str) ==
    IF /\ Len(ip_str) = 7
       /\ \A i \in {2, 4, 6} : ip_str[i] = "."
       /\ \A i \in {1, 3, 5, 7} : ip_str[i] \in 0..255
    THEN Some(Addr(ip_str[1], ip_str[3], ip_str[5], ip_str[7]))
    ELSE None

\* The texts resolve is called with: two addresses and three texts that are
\* no address.
DnsQueries ==
    { DottedQuad(Addr(127, 0, 0, 1)), DottedQuad(Addr(192, 0, 2, 1)),
      <<10, ".", 0, ".", 0>>, <<256, ".", 0, ".", 0, ".", 1>>, <<10, ":", 0, ":", 0, ":", 1>> }

\* What lookup_addr under the timeout can give for a text: nothing, a name,
\* or the address echoed back.
LookupAnswers(ip_str) == { None, Some(<<"localhost">>), Some(ip_str) }

\* `result.filter(|h| h != ip_str)`.
NotEcho(result, ip_str) == IF result # None /\ result[1] = ip_str THEN None ELSE result

Stored_found(c, ip, hostname, t) ==
    IF hostname = None THEN c
    ELSE MapPut(c, ip, [hostname |-> hostname, expires_at |-> t + DnsTtl])

\* `self.cache.insert(ip, CacheEntry { hostname, expires_at: now + ttl })`.
Stored(c, ip, hostname, t) == MapPut(c, ip, [hostname |-> hostname, expires_at |-> t + DnsTtl])

\* resolve(ip_str) up to its first suspension: the parse and the fast path.
ResolveCall ==
    /\ resolving = <<>>
    /\ \E ip_str \in DnsQueries :
         LET ip == ParseIp(ip_str)
         IN  IF ip = None
             THEN /\ resolved' = [ip_str |-> ip_str, hostname |-> None, lookup |-> FALSE]
                  /\ UNCHANGED resolving
             ELSE IF ip[1] \in Keys(cache) /\ now < cache[ip[1]].expires_at
             THEN /\ resolved' = [ip_str |-> ip_str, hostname |-> cache[ip[1]].hostname,
                                  lookup |-> FALSE]
                  /\ UNCHANGED resolving
             ELSE /\ resolving' = [ip_str |-> ip_str, ip |-> ip[1]]
                  /\ UNCHANGED resolved
    /\ UNCHANGED <<cache, now, notDns>>

\* The lookup has ended or timed out: the answer is cached and returned.
ResolveLookup ==
    /\ resolving # <<>>
    /\ \E answer \in LookupAnswers(resolving.ip_str) :
         LET hostname == NotEcho(answer, resolving.ip_str)
         IN  /\ cache' = Stored(cache, resolving.ip, hostname, now)
             /\ resolved' = [ip_str |-> resolving.ip_str, hostname |-> hostname, lookup |-> TRUE]
    /\ resolving' = <<>>
    /\ UNCHANGED <<now, notDns>>

NextDns == ResolveCall \/ ResolveLookup \/ Tick

SpecDns == Init /\ [][NextDns]_vars

\* C28: a lookup's result, Some or None, is cached for the parsed address
\* with the TTL; a resolve of an address whose entry has not expired returns
\* the entry's value without a lookup and leaves the cache alone; the cache
\* keeps one entry for an address; an unparseable text gives None and leaves
\* the cache unchanged.
C28_CacheContract ==
    [][/\ ResolveLookup =>
            /\ resolving.ip \in Keys(cache')
            /\ cache'[resolving.ip] = [hostname |-> resolved'.hostname, expires_at |-> now + DnsTtl]
            /\ Keys(cache') = Keys(cache) \cup {resolving.ip}
            /\ \A k \in Keys(cache) \ {resolving.ip} : cache'[k] = cache[k]
       /\ \A ip_str \in DnsQueries :
            LET ip == ParseIp(ip_str)
            IN  (ResolveCall /\ resolving = <<>>
                   /\ IF resolving' # <<>> THEN resolving'.ip_str = ip_str
                      ELSE resolved' # <<>> /\ resolved'.ip_str = ip_str /\ resolved' # resolved) =>
                  /\ ip = None => (resolving' = <<>> /\ resolved'.hostname = None /\ cache' = cache)
                  /\ (ip # None /\ ip[1] \in Keys(cache) /\ now < cache[ip[1]].expires_at) =>
                        /\ resolving' = <<>>
                        /\ ~resolved'.lookup
                        /\ resolved'.hostname = cache[ip[1]].hostname
                        /\ cache' = cache]_vars

\* C28 witness: a failed lookup was cached and the next resolve of the address
\* was answered None from the cache, within the TTL.
C28_Witness ==
    /\ resolved # <<>> /\ ~resolved.lookup /\ resolved.hostname = None
    /\ ParseIp(resolved.ip_str) # None
    /\ ParseIp(resolved.ip_str)[1] \in Keys(cache)
    /\ now < cache[ParseIp(resolved.ip_str)[1]].expires_at

----------------------------------------------------------------------------
(* Configuration: file, command line, merge_cli *)

notConfig == <<apiVars, dbVars, flowVars, decodeVars, metricsVars, dnsVars, snifferVars, closeVars, classifierVars,
               ringVars, ingestVars, trafficVars, cleanupVars, now, writerVars>>

default_db_path == "traffic.db"

\* Config::default().
DefaultConfig ==
    [interface |-> None, port |-> default_port, db_path |-> default_db_path,
     connection_timeout |-> default_connection_timeout, quiet |-> FALSE,
     data_retention_seconds |-> None, aggregation_window_seconds |-> 0,
     resolve_dns |-> FALSE, allowed_ips |-> <<>>]

\* Config::from_file: what a YAML file can hold, absent keys at their serde
\* defaults.
FileConfigs ==
    { [DefaultConfig EXCEPT !.port = p, !.connection_timeout = t, !.quiet = q,
                            !.data_retention_seconds = r, !.aggregation_window_seconds = w] :
        p \in {default_port, 8080}, t \in {default_connection_timeout, 30}, q \in BOOLEAN,
        r \in {None, Some(60)}, w \in {0, 5} }

\* The command lines: an option is given with a value or left out, a flag is
\* given or not.
CommandLines ==
    { [interface |-> None, port |-> p, db_path |-> d, config |-> f, connection_timeout |-> t,
       quiet |-> q, data_retention |-> r, aggregation_window |-> w, resolve_dns |-> FALSE,
       allowed_ips |-> <<>>] :
        p \in {None, Some(default_port), Some(9090)}, d \in {None, Some("other.db")},
        f \in BOOLEAN, t \in {None, Some(default_connection_timeout)}, q \in BOOLEAN,
        r \in {None, Some(3600)}, w \in {None, Some(0)} }

\* CliArgs::parse(): clap fills an option left out with its default_value.
CliArgs(line) ==
    [interface |-> line.interface,
     port |-> unwrap_or(line.port, 3000),
     db_path |-> unwrap_or(line.db_path, "traffic.db"),
     connection_timeout |-> unwrap_or(line.connection_timeout, 60),
     quiet |-> line.quiet,
     data_retention |-> line.data_retention,
     aggregation_window |-> unwrap_or(line.aggregation_window, 0),
     resolve_dns |-> line.resolve_dns,
     allowed_ips |-> line.allowed_ips]

\* Config::merge_cli(&mut self, cli).
merge_cli(self, cli) ==
    [interface |-> IF cli.interface # None THEN cli.interface ELSE self.interface,
     port |-> IF cli.port # 3000 THEN cli.port ELSE self.port,
     db_path |-> IF cli.db_path # "traffic.db" THEN cli.db_path ELSE self.db_path,
     connection_timeout |-> IF cli.connection_timeout # 60 THEN cli.connection_timeout
                            ELSE self.connection_timeout,
     quiet |-> IF cli.quiet THEN TRUE ELSE self.quiet,
     data_retention_seconds |-> IF cli.data_retention # None THEN cli.data_retention
                                ELSE self.data_retention_seconds,
     aggregation_window_seconds |-> IF cli.aggregation_window # 0 THEN cli.aggregation_window
                                    ELSE self.aggregation_window_seconds,
     resolve_dns |-> IF cli.resolve_dns THEN TRUE ELSE self.resolve_dns,
     allowed_ips |-> IF cli.allowed_ips # <<>> THEN cli.allowed_ips ELSE self.allowed_ips]

\* main: the command line is parsed and the configuration loaded, from the
\* file when --config is given.
LoadConfig ==
    /\ config = <<>>
    /\ \E line \in CommandLines :
         /\ argv' = line
         /\ IF line.config THEN config' \in FileConfigs ELSE config' = DefaultConfig
    /\ UNCHANGED <<merged, notConfig>>

\* main: `config.merge_cli(&cli)`.
MergeCli ==
    /\ config # <<>> /\ ~merged
    /\ config' = merge_cli(config, CliArgs(argv))
    /\ merged' = TRUE
    /\ UNCHANGED <<argv, notConfig>>

NextConfig == LoadConfig \/ MergeCli

SpecConfig == Init /\ [][NextConfig]_vars

\* C29: after the merge, every key given a value on the command line holds
\* that value, whatever the file holds for it.
C29_CliWins ==
    merged =>
        /\ argv.port # None => config.port = argv.port[1]
        /\ argv.db_path # None => config.db_path = argv.db_path[1]
        /\ argv.connection_timeout # None => config.connection_timeout = argv.connection_timeout[1]
        /\ argv.data_retention # None => config.data_retention_seconds = argv.data_retention
        /\ argv.aggregation_window # None =>
              config.aggregation_window_seconds = argv.aggregation_window[1]
        /\ argv.quiet => config.quiet

----------------------------------------------------------------------------
(* The pcap sniffer: start_sniffer *)

notSniffer == <<apiVars, dbVars, flowVars, decodeVars, metricsVars, dnsVars, configVars, closeVars,
                classifierVars, ringVars, ingestVars, cleanupVars, now>>

\* eq_ignore_ascii_case on the protocol names in use.
Lower(name) ==
    CASE name \in {"TCP", "tcp"} -> "tcp"
      [] name \in {"UDP", "udp"} -> "udp"
      [] OTHER -> name

\* FilterConfig::matches.
matches(filter, meta) ==
    /\ filter.port # None => (meta.src_port = filter.port[1] \/ meta.dst_port = filter.port[1])
    /\ filter.ip # None => (meta.src_ip = filter.ip[1] \/ meta.dst_ip = filter.ip[1])
    /\ filter.protocol # None => Lower(meta.protocol) = Lower(filter.protocol[1])

\* The filters of the configuration: none, a port, a protocol.
Filters ==
    { [port |-> None, ip |-> None, protocol |-> None],
      [port |-> Some(443), ip |-> None, protocol |-> None],
      [port |-> None, ip |-> None, protocol |-> Some("tcp")] }

\* Config::sample_rate.
SampleRates == {0, 1, 2, 3}

\* What cap.next_packet() and the slicing give at time t: a frame that does
\* not slice, one without a network layer, an IPv4 packet with no TCP or UDP
\* in it, a TCP segment and a UDP datagram.
Sniffed(t) ==
    { [sliced |-> FALSE, meta |-> <<>>],
      [sliced |-> TRUE,
       meta |-> [from_ebpf(Event(Flow1, 6, 42), t) EXCEPT
                   !.src_ip = "?.?.?.?", !.dst_ip = "?.?.?.?", !.src_port = 0, !.dst_port = 0,
                   !.protocol = "Unknown"]],
      [sliced |-> TRUE,
       meta |-> [from_ebpf(Event(Flow1, 6, 84), t) EXCEPT
                   !.src_port = 0, !.dst_port = 0, !.protocol = "IPv4"]],
      [sliced |-> TRUE, meta |-> from_ebpf(Event(Flow1, 6, 1500), t)],
      [sliced |-> TRUE, meta |-> from_ebpf(Event(Flow2, 17, 64), t)] }

\* `if sample_rate == 0 { 1 } else { sample_rate }`.
EffectiveRate(sample_rate) == IF sample_rate = 0 THEN 1 ELSE sample_rate

\* u32::wrapping_add(1), on a counter of CounterBits bits.
wrapping_add1(c) == (c + 1) % (2 ^ CounterBits)

\* main spawns the sniffer thread with the configuration's rate and filter.
SnifferStart ==
    /\ sniffer = <<>>
    /\ \E r \in SampleRates, f \in Filters :
         sniffer' = [sample_rate |-> r, filter |-> f, running |-> TRUE, sending |-> <<>>]
    /\ UNCHANGED <<sample_counter, accepted, forwarded, trafficVars, writerVars, notSniffer>>

\* One iteration of the capture loop up to the sampling gate.
Sniff ==
    /\ sniffer # <<>> /\ sniffer.running /\ sniffer.sending = <<>>
    /\ accepted < 2 ^ CounterBits
    /\ \E pkt \in Sniffed(now) :
         IF pkt.sliced /\ pkt.meta.protocol # "Unknown" /\ matches(sniffer.filter, pkt.meta)
         THEN /\ UpdateEntry(pkt.meta)
              /\ UpdateTotalPackets
              /\ UpdateTotalBytes(pkt.meta)
              /\ sample_counter' = wrapping_add1(sample_counter)
              /\ accepted' = accepted + 1
              /\ sniffer' = IF sample_counter' % EffectiveRate(sniffer.sample_rate) = 0
                            THEN [sniffer EXCEPT !.sending = [meta |-> pkt.meta, id |-> accepted']]
                            ELSE sniffer
         ELSE UNCHANGED <<sniffer, sample_counter, accepted, trafficVars>>
    /\ UNCHANGED <<forwarded, writerVars, notSniffer>>

\* `tx.blocking_send(meta)`: the metadata enters the channel when there is
\* room, and the loop breaks when the receiver is gone.
SniffSend ==
    /\ sniffer # <<>> /\ sniffer.sending # <<>>
    /\ IF rxAlive
       THEN LET r == ChanSend(chan, sniffer.sending)
            IN  /\ ~r.wait /\ chan' = r.chan
                /\ forwarded' = forwarded \cup {sniffer.sending.id}
                /\ sniffer' = [sniffer EXCEPT !.sending = <<>>]
       ELSE /\ sniffer' = [sniffer EXCEPT !.sending = <<>>, !.running = FALSE]
            /\ UNCHANGED <<chan, forwarded>>
    /\ UNCHANGED <<rxAlive, mode, buffer, buckets, rows, received, wlast, wsel>>
    /\ UNCHANGED <<sample_counter, accepted, trafficVars, notSniffer>>

\* The writer's `rx.recv()`, whatever it does with the metadata afterwards.
Drain ==
    /\ rxAlive /\ chan # <<>>
    /\ chan' = Tail(chan)
    /\ received' = Append(received, Head(chan).id)
    /\ UNCHANGED <<rxAlive, mode, buffer, buckets, rows, wlast, wsel>>
    /\ UNCHANGED <<snifferVars, trafficVars, notSniffer>>

\* The writer task ends and drops the receiver.
ReceiverGone ==
    /\ rxAlive
    /\ rxAlive' = FALSE
    /\ chan' = <<>>
    /\ UNCHANGED <<mode, buffer, buckets, rows, received, wlast, wsel>>
    /\ UNCHANGED <<snifferVars, trafficVars, notSniffer>>

NextSniffer ==
    \/ SnifferStart \/ Sniff \/ SniffSend
    \/ Drain \/ ReceiverGone

SpecSniffer == Init /\ [][NextSniffer]_vars

\* C30: every packet that parses and passes the filter updates the live
\* state, so total_packets counts all of them, and the packets put on the
\* writer channel are exactly those whose ordinal among the accepted ones is a
\* multiple of the effective sample rate, a rate of 0 counting as 1.
C30_SamplingByOrdinal ==
    (sniffer # <<>> /\ sniffer.running /\ sniffer.sending = <<>>) =>
        /\ total_packets = accepted
        /\ forwarded = { n \in 1..accepted :
                           n % (IF sniffer.sample_rate = 0 THEN 1 ELSE sniffer.sample_rate) = 0 }

----------------------------------------------------------------------------
(* Undersized ring records *)

\* A record shorter than a PacketEvent reaches the ring (the classifier never
\* submits one; poll_ring_buf guards against it all the same).  Its bytes are
\* the leading bytes of some event.
ShortSizes == {0, PacketEventSize - 1}

SubmitShort ==
    /\ seqno < MaxPackets /\ ReserveOk(ring)
    /\ seqno' = seqno + 1
    /\ \E n \in ShortSizes :
         ring' = Append(ring, [size |-> n, ev |-> Event(Flow2, 17, 64), id |-> seqno + 1])
    /\ committed' = Append(committed, seqno + 1)
    /\ UNCHANGED <<classifierVars, ingestVars, trafficVars, cleanupVars, now, writerVars, auxVars>>

CaptureTcp == CaptureOf({Hdr(IpProtoTcp, Flow1, 1500)})

NextShort ==
    \/ CaptureTcp \/ SubmitShort
    \/ Poll \/ PollEmpty \/ Wake
    \/ IngestEntry \/ IngestTotalPackets \/ IngestTotalBytes \/ IngestSend \/ IngestRelease

SpecShort == Init /\ [][NextShort]_vars

\* C31: the ingest loop discards a ring record shorter than a PacketEvent
\* with no effect: the live-flow map, total_packets, total_bytes,
\* active_connections and the writer channel are unchanged, nothing is passed
\* to update, and the loop is back at ring_buf.next() with the next record at
\* the head of the ring.
C31_ShortRecordDiscarded ==
    [][(Poll /\ Head(ring).size < PacketEventSize) =>
          /\ connections' = connections
          /\ total_packets' = total_packets /\ total_bytes' = total_bytes
          /\ active_connections' = active_connections
          /\ chan' = chan
          /\ processed' = processed /\ pending' = pending
          /\ ipc' = "poll" /\ ring' = Tail(ring)]_vars

\* C31 witness: a short record was discarded between two full records: the
\* first was processed, the short one is gone from the ring uncounted, and
\* the record behind it is now the one ring_buf.next() yields.
C31_Witness ==
    /\ ipc = "poll" /\ processed = <<1>> /\ total_packets = 1
    /\ committed = <<1, 2, 3>> /\ RingIds = {3}
    /\ ring[1].size = PacketEventSize

----------------------------------------------------------------------------
(* active_connections against the size of the live-flow map *)

\* C32: in every state, the intermediate states of update and of
\* cleanup_stale_connections running concurrently included,
\* active_connections is at least the number of entries of the live-flow
\* map, and when the cleanup reaches its fetch_sub the counter is at least
\* removed_count: the subtraction never wraps below zero.
C32_NoUnderflow ==
    /\ active_connections >= Cardinality(Keys(connections))
    /\ (cpc = "remove" /\ to_remove = {}) => active_connections >= removed_count

\* C32 witness: the cleanup is about to subtract the one entry it removed
\* while an update that inserted an entry in the meantime is still running.
C32_Witness ==
    /\ cpc = "remove" /\ to_remove = {} /\ removed_count = 1
    /\ ipc = "count_packets"
    /\ Cardinality(Keys(connections)) = 1 /\ active_connections = 2

----------------------------------------------------------------------------
(* Eviction against a flow refreshed during the cleanup *)

\* C33: cleanup_stale_connections removes an entry only if the entry is
\* stale at the moment it is removed: every entry the running cleanup has
\* removed had, when removed, a last_seen older than the timeout; an entry
\* refreshed after the scan collected its key is not among them.
C33_RemovedOnlyIfStale ==
    \A r \in removed : IsStale(c_now, r.last_seen)

----------------------------------------------------------------------------
(* Exported counters against the atomics they mirror *)

\* C34: under any interleaving of concurrent /metrics requests with each
\* other and with ingest updates, the exported packets_total never exceeds
\* total_packets and the exported bytes_total never exceeds total_bytes.
C34_ExportedWithinTotals ==
    /\ exported.packets <= total_packets
    /\ exported.bytes <= total_bytes

----------------------------------------------------------------------------
(* Size of the raw writer's buffer *)

\* C35: in raw mode, at the end of every loop iteration of the writer the
\* batch buffer holds at most a full batch (1000 metadata), whatever the
\* database answered to the flushes so far.
C35_BufferBounded ==
    mode = "raw" => Len(buffer) <= BatchSize

----------------------------------------------------------------------------
(* The raw writer under database failures *)

NextRaw == DeliverOne \/ WriterRecvRaw \/ WriterTickRaw \/ Elapse

SpecRaw == Init /\ [][NextRaw]_vars

RowsOf(id) == { i \in DOMAIN rows : id \in rows[i].ids }

\* C36: in raw mode, whatever flushes fail at begin, prepare, row insert or
\* commit, every metadata the writer received has at most one row in the
\* packets table, and every row is the row of a received metadata.
C36_AtMostOnce ==
    mode = "raw" =>
        /\ \A id \in Range(received) : Cardinality(RowsOf(id)) <= 1
        /\ RowIds \subseteq Range(received)

\* C36 witness: a batch larger than the threshold, which only a failed flush
\* leaves behind, was written by a later flush that succeeded.
C36_Witness ==
    /\ mode = "raw" /\ wlast.kind = "ok" /\ wlast.failed = {}
    /\ Len(wlast.batch) = BatchSize + 1
    /\ Len(rows) = BatchSize + 1 /\ buffer = <<>>

----------------------------------------------------------------------------
(* The raw pipeline with a database that never fails *)

\* A writer iteration whose flush, if it called one, committed every row.
NoDbError == wlast'.kind \in {"none", "ok"} /\ wlast'.failed = {}

RecvRawOk == WriterRecvRaw /\ NoDbError

TickRawOk == WriterTickRaw /\ NoDbError

NextConserve ==
    \/ CaptureTcp
    \/ Poll \/ PollEmpty \/ Wake
    \/ IngestEntry \/ IngestTotalPackets \/ IngestTotalBytes \/ IngestSend \/ IngestRelease
    \/ RecvRawOk \/ TickRawOk

\* The runtime keeps running every task that is ready: the ingest loop goes
\* on after each step and after its sleep, the writer's select takes a
\* message that is waiting, and its 2 s ticker keeps firing.
SpecConserve ==
    /\ Init /\ [][NextConserve]_vars
    /\ WF_vars(Poll) /\ WF_vars(PollEmpty) /\ WF_vars(Wake)
    /\ WF_vars(IngestEntry) /\ WF_vars(IngestTotalPackets) /\ WF_vars(IngestTotalBytes)
    /\ WF_vars(IngestSend) /\ WF_vars(IngestRelease)
    /\ WF_vars(RecvRawOk) /\ WF_vars(TickRawOk)

Downstream == Len(rows) + Len(buffer) + Len(chan)

\* C37: in raw mode with no database error and no pruning, in every state
\* the persisted rows, the writer's buffer and the channel together hold at
\* most total_packets metadata and at least total_packets - 1 (the one the
\* ingest loop has counted and not yet sent); and every metadata passed to
\* update is eventually persisted as exactly one row, for good.
C37_Conservation ==
    /\ [](mode = "raw" => (Downstream <= total_packets /\ total_packets - Downstream <= 1))
    /\ \A id \in 1..MaxPackets :
         [](mode = "raw" /\ id \in Range(processed) => <>[](Cardinality(RowsOf(id)) = 1))

\* C37 witness: three metadata are persisted and a fourth is counted and not
\* yet sent.
C37_Witness ==
    /\ mode = "raw" /\ Len(rows) = 3 /\ buffer = <<>> /\ chan = <<>>
    /\ total_packets = 4 /\ ipc = "send"

----------------------------------------------------------------------------
(* The aggregating writer with a database that never fails *)

\* The n-th metadata delivered has a length of its own, so that the bytes
\* received are known from the ids received.
LengthOf(n) == 40 * n

DeliverSized == DeliverOf({ Event(f, 6, LengthOf(seqno + 1)) : f \in Flows })

TickAggOk == WriterTickAgg /\ NoDbError

NextAggOk == DeliverSized \/ WriterRecvAgg \/ TickAggOk \/ Elapse

SpecAggOk == Init /\ [][NextAggOk]_vars

RECURSIVE SumSeq(_, _)
SumSeq(q, i) == IF i > Len(q) THEN 0 ELSE q[i] + SumSeq(q, i + 1)

PersistedBytes == SumSeq([i \in DOMAIN rows |-> rows[i].length], 1)
BucketBytes    == SumField(buckets, "total_bytes")
ReceivedBytes  == SumSeq([i \in DOMAIN received |-> LengthOf(received[i])], 1)

\* C38: in aggregated mode with no database error and no pruning, in every
\* state the lengths of the persisted rows plus the total_bytes of the
\* current buckets add up to the lengths of all the metadata the writer has
\* received, whatever the interleaving of receptions and window ticks.
C38_ByteConservation ==
    mode = "agg" => PersistedBytes + BucketBytes = ReceivedBytes

\* C38 witness: a window was flushed with two metadata merged into one
\* bucket, and a metadata received after the flush sits in a new bucket.
C38_Witness ==
    /\ mode = "agg" /\ Len(rows) = 1 /\ Cardinality(rows[1].ids) = 2
    /\ Cardinality(Keys(buckets)) = 1 /\ Len(received) = 3
    /\ PersistedBytes = LengthOf(1) + LengthOf(2) /\ BucketBytes = LengthOf(3)

----------------------------------------------------------------------------
(* The writer after the channel is closed *)

\* The last Sender is dropped: the ingest task has ended and main has
\* returned or dropped its handle.  Messages already sent stay receivable.
DropSenders ==
    /\ senders
    /\ senders' = FALSE
    /\ UNCHANGED <<apiVars, dbVars, flowVars, decodeVars, metricsVars, dnsVars, configVars,
                   snifferVars, classifierVars, ringVars, ingestVars, trafficVars, cleanupVars,
                   now, writerVars>>

DeliverOpen == senders /\ DeliverOne

RecvNone_break == [wsel |-> "armed", alive |-> FALSE]

\* `Some(packet) = rx.recv()` when recv() yields None: the pattern does not
\* match, select! disables the branch for this iteration and keeps waiting
\* on the ticker; the loop goes on.
RecvNone == [wsel |-> "tick_only", alive |-> TRUE]

\* rx.recv() on a closed and empty channel.
WriterRecvNone ==
    /\ rxAlive /\ wsel = "armed"
    /\ ~senders /\ chan = <<>>
    /\ wsel' = RecvNone.wsel
    /\ rxAlive' = RecvNone.alive
    /\ UNCHANGED <<chan, mode, buffer, buckets, rows, received, wlast, notWriter>>

NextClosed ==
    \/ DeliverOpen \/ DropSenders
    \/ WriterRecvRaw \/ WriterTickRaw \/ WriterRecvAgg \/ WriterTickAgg
    \/ WriterRecvNone
    \/ Elapse

SpecClosed == Init /\ [][NextClosed]_vars

\* C39: once every sender is dropped, a timer tick still flushes whatever is
\* in the buffer or the bucket map; the None of the closed channel neither
\* ends the writer nor completes a loop iteration, and after it the writer
\* waits for the ticker alone: it does not poll the channel again before the
\* timer has fired.
C39_ClosedChannel ==
    /\ [][(~senders /\ (WriterTickRaw \/ WriterTickAgg)) =>
            /\ wlast'.flushed <=> (buffer # <<>> \/ Keys(buckets) # {})
            /\ wlast'.flushed => IdsOf(wlast'.batch) = BufferIds \cup BucketIds]_vars
    /\ [][WriterRecvNone =>
            /\ rxAlive' /\ wsel' = "tick_only"
            /\ UNCHANGED <<buffer, buckets, rows, wlast>>]_vars
    /\ [](wsel = "tick_only" =>
            /\ rxAlive
            /\ ~ENABLED WriterRecvNone /\ ~ENABLED WriterRecvRaw /\ ~ENABLED WriterRecvAgg
            /\ ENABLED (WriterTickRaw \/ WriterTickAgg))

\* C39 witness: the channel is closed and drained, the writer has met the
\* None and waits for the ticker with a metadata still in its buffer.
C39_Witness ==
    /\ ~senders /\ chan = <<>> /\ wsel = "tick_only"
    /\ mode = "raw" /\ Len(buffer) = 1 /\ Len(rows) = BatchSize

----------------------------------------------------------------------------
(* Progress of the pipeline around the database mutex *)

\* Raw mode; packets arrive one at a time, each after the ingest loop is
\* done with the one before.
CaptureNext == mode = "raw" /\ ring = <<>> /\ CaptureTcp

\* query_history: the SELECT; its result goes to the client.
ServeQuery ==
    /\ dpc["reader"] = "query"
    /\ Goto("reader", "return")
    /\ UNCHANGED <<writerVars, apiVars, txn, todo, seqno, notDb>>

\* delete_old_data: the DELETE of the rows older than the present; its
\* result goes to the log.
ServePrune ==
    /\ dpc["retention"] = "delete"
    /\ rows' = SelectSeq(rows, LAMBDA r : ~Expired(r, Cutoff(now, 0)))
    /\ Goto("retention", "return")
    /\ UNCHANGED <<chan, rxAlive, mode, buffer, buckets, received, wlast, wsel, apiVars, txn, todo,
                   seqno, notDb>>

NextLive ==
    \/ CaptureNext
    \/ Poll \/ PollEmpty \/ Wake
    \/ IngestEntry \/ IngestTotalPackets \/ IngestTotalBytes \/ IngestSend \/ IngestRelease
    \/ DbRecv \/ DbTick
    \/ FlushLock \/ FlushBegin \/ FlushPrepare \/ FlushExecute \/ FlushCommit
    \/ HistLock \/ ServeQuery
    \/ PruneLock \/ ServePrune
    \/ \E t \in DbTasks : DbReturn(t)

\* Every task that can run keeps running: the steps of the ingest loop and
\* of the writer, and the statements of a task inside a database call.  A
\* writer waiting in lock() gets the mutex if it is free again and again,
\* and its select! takes a waiting message if it comes back to the select!
\* again and again, the ticker firing only every 2 s (strong fairness).
\* Requests and retention runs may stop coming: no fairness on HistLock and
\* PruneLock.
SpecLive ==
    /\ Init /\ [][NextLive]_vars
    /\ WF_vars(Poll) /\ WF_vars(PollEmpty) /\ WF_vars(Wake)
    /\ WF_vars(IngestEntry) /\ WF_vars(IngestTotalPackets) /\ WF_vars(IngestTotalBytes)
    /\ WF_vars(IngestSend) /\ WF_vars(IngestRelease)
    /\ SF_vars(DbRecv) /\ WF_vars(DbTick)
    /\ SF_vars(FlushLock)
    /\ WF_vars(FlushBegin) /\ WF_vars(FlushPrepare) /\ WF_vars(FlushExecute) /\ WF_vars(FlushCommit)
    /\ WF_vars(ServeQuery) /\ WF_vars(ServePrune)
    /\ \A t \in DbTasks : WF_vars(DbReturn(t))

SendBlocked == ipc = "send" /\ rxAlive /\ Len(chan) >= ChannelCapacity

====
